---- MODULE Spec2Model ----
(***************************************************************************)
(* Agent / Fleet execution pipeline of the Virtual Counsellor.             *)
(*                                                                         *)
(* BaseAgent.execute (validation, model call, response parsing,            *)
(* confidence calculation) and BaseFleetManager.execute_workflow (fleet    *)
(* validation, execution plan, sequential agent loop, aggregation) for     *)
(* the college and the school fleet.                                       *)
(*                                                                         *)
(* Scores are integers in units of 0.0001 (0.85 is 8500): some agents      *)
(* round their confidence to two decimals, others do not.                  *)
(***************************************************************************)
EXTENDS Integers, Sequences, FiniteSets, TLC

VARIABLES
    agents,            \* fleet -> set of agent ids registered by add_agent
    pc,                \* position of the one call stack
    caller,            \* who called agent.execute: "fleet", "direct" or "none"
    fleet,             \* the fleet whose execute_workflow runs
    user_data,         \* the user_data of the running call
    execution_plan,    \* list of agent ids
    pos,               \* 1-based index of the loop over execution_plan
    agent_results,     \* agent id -> AgentResult, of the running workflow
    previous_outputs,  \* agent id -> AgentResult, completed ones only
    cur_agent,         \* agent whose execute runs
    agent_input,       \* the AgentInput handed to cur_agent
    validated,         \* what validate_input returned to execute
    response,          \* what the model returned to _process_core_logic
    agent_result,      \* what the last agent.execute returned
    fleet_result,      \* what the last execute_workflow returned
    raised,            \* exception that left execute / execute_workflow
    thrown,            \* exception raised inside the running / last execute
    model_calls,       \* agents whose model was invoked during the call
    model_raised,      \* agents one of whose model invocations raised
    invocations,       \* log of the agent.execute calls of the workflow
    parse_input,       \* the response text a parser was handed, and by whom
    content,           \* the local `content` of _parse_llm_response
    parsed,            \* what _parse_llm_response returned or raised
    session_contexts,  \* ConversationManager.session_contexts: id -> vertical
    state,             \* the WorkflowState of the running / last invocation
    trace,             \* the nodes of the graph that ran in it, in order
    entry,             \* the public method that started it
    session_response,  \* what that method returned
    processing_notes,  \* agent id -> the list in its _processing_notes
    returned_results,  \* the AgentResults that execute has returned, in order
    collected,         \* how many of them a FleetResult has taken in
    session_storage,   \* run.py session_storage: session id -> entry
    background_tasks,  \* the background tasks added and not yet started
    running_task,      \* the background task the event loop is running
    submissions,       \* how many analysis requests were handled
    status_reply       \* what the last GET /status/{session_id} returned

vars == <<agents, pc, caller, fleet, user_data, execution_plan, pos,
          agent_results, previous_outputs, cur_agent, agent_input, validated,
          response, agent_result, fleet_result, raised, thrown, model_calls, model_raised,
          invocations, parse_input, content, parsed, session_contexts, state,
          trace, entry, session_response, processing_notes,
          returned_results, collected, session_storage, background_tasks,
          running_task, submissions, status_reply>>

\* the variables of a _parse_llm_response call
parserVars == <<parse_input, content, parsed>>

\* the variables of the orchestrator
orchestratorVars == <<session_contexts, state, trace, entry, session_response>>

\* the variables of the agents' processing notes
notesVars == <<processing_notes, returned_results, collected>>

\* the variables of the API layer's session store
storeVars == <<session_storage, background_tasks, running_task, submissions,
               status_reply>>

extraVars == <<notesVars, storeVars>>

-----------------------------------------------------------------------------
(* Bounds of the model *)

\* how many steps below 0.95 an agent's confidence score is drawn from
MaxConfStep == 1

-----------------------------------------------------------------------------
(* Sequence helpers *)

Range(s) == {s[k] : k \in 1..Len(s)}

RECURSIVE SumOver(_, _)
SumOver(f, S) ==
    IF S = {} THEN 0
    ELSE LET x == CHOOSE y \in S : TRUE IN f[x] + SumOver(f, S \ {x})

NoMap == [x \in {} |-> 0]

-----------------------------------------------------------------------------
(* The two fleets *)

Fleets == {"college", "school"}

\* self.execution_order, which is also the order _initialize_agents adds them
execution_order(f) ==
    IF f = "college"
    THEN <<"profile_analysis", "market_intelligence",
           "skill_development_strategist", "career_optimization_planner",
           "opportunity_matcher">>
    ELSE <<"test_score_interpreter", "academic_stream_advisor",
           "career_pathway_explorer", "educational_roadmap_planner",
           "college_scholarship_navigator">>

AgentIds == Range(execution_order("college")) \cup Range(execution_order("school"))

FleetOf(a) == IF a \in Range(execution_order("college")) THEN "college" ELSE "school"

\* the depends_on lists of the AgentDependency declarations of _initialize_fleet
depends_on(a) ==
    CASE a = "profile_analysis" -> {}
      [] a = "market_intelligence" -> {}
      [] a = "skill_development_strategist" ->
            {"profile_analysis", "market_intelligence"}
      [] a = "career_optimization_planner" ->
            {"profile_analysis", "market_intelligence",
             "skill_development_strategist"}
      [] a = "opportunity_matcher" ->
            {"profile_analysis", "career_optimization_planner"}
      [] a = "test_score_interpreter" -> {}
      [] a = "academic_stream_advisor" -> {"test_score_interpreter"}
      [] a = "career_pathway_explorer" ->
            {"test_score_interpreter", "academic_stream_advisor"}
      [] a = "educational_roadmap_planner" ->
            {"academic_stream_advisor", "career_pathway_explorer"}
      [] a = "college_scholarship_navigator" ->
            {"career_pathway_explorer", "educational_roadmap_planner"}

\* _initialize_agents: the constructors run in order inside one try block, so
\* a constructor that throws leaves the agents before it registered
RegisteredPrefixes(f) ==
    {{execution_order(f)[k] : k \in 1..n} : n \in 0..Len(execution_order(f))}

\* what the constructors of the fleets leave in self.agents. A run reads the
\* registry of its own fleet only, so one fleet's registry varies at a time,
\* the other fleet having registered none of its agents.
Registries ==
    {g \in [Fleets -> SUBSET AgentIds] :
        /\ \A f \in Fleets : g[f] \in RegisteredPrefixes(f)
        /\ \E f \in Fleets : g[f] = {}}

-----------------------------------------------------------------------------
(* user_data: field -> kind of value *)

Fields == {"resume_data", "dbda_scores", "cii_results"}

FleetFields(f) == IF f = "college" THEN {"resume_data"}
                  ELSE {"dbda_scores", "cii_results"}

\* "absent": key not in the dict; "zero": a falsy value that is neither None
\* nor a container (0, False); "str"/"dict": non-empty
ValueKinds == {"absent", "none", "empty_str", "empty_list", "empty_dict",
               "zero", "str", "dict"}

Present(v)   == v # "absent"
Truthy(v)    == v \in {"str", "dict"}
IsDict(v)    == v \in {"empty_dict", "dict"}
LenZero(v)   == v \in {"empty_str", "empty_list", "empty_dict"}

\* user_data is None (is_none) or a dict
UserDataNone == [is_none |-> TRUE, f |-> [x \in Fields |-> "absent"]]
UserDataOf(g) == [is_none |-> FALSE, f |-> g]

\* the user_data a caller of fleet f may pass: its own fields vary
UserDatas(f) ==
    {UserDataNone} \cup
    {UserDataOf(g) : g \in {h \in [Fields -> ValueKinds] :
                               \A x \in Fields \ FleetFields(f) : h[x] = "absent"}}

-----------------------------------------------------------------------------
(* Agents: declared inputs *)

\* _define_required_inputs of each agent, in list order
required_inputs(a) ==
    CASE a = "profile_analysis" -> <<"resume_data">>
      [] a \in {"test_score_interpreter", "academic_stream_advisor",
                "career_pathway_explorer"} -> <<"dbda_scores", "cii_results">>
      [] OTHER -> <<>>

\* _define_optional_inputs of each agent, restricted to the modelled fields
optional_inputs(a) ==
    CASE a \in {"market_intelligence", "skill_development_strategist",
                "career_optimization_planner", "opportunity_matcher"}
             -> {"resume_data"}
      [] a \in {"educational_roadmap_planner", "college_scholarship_navigator"}
             -> {"dbda_scores", "cii_results"}
      [] OTHER -> {}

-----------------------------------------------------------------------------
(* BaseAgent.validate_input *)

\* a field holding an empty str/list/dict counts as available
_check_field_availability_ignoring_length(field_name, ud) ==
    Present(ud.f[field_name]) /\ ud.f[field_name] # "none"

\* a truthiness test: 0 and False count as unavailable too
_check_field_availability_by_truthiness(field_name, ud) ==
    Present(ud.f[field_name]) /\ Truthy(ud.f[field_name])

\* field present, not None, and not a str/list/dict of length 0
_check_field_availability(field_name, ud) ==
    IF Present(ud.f[field_name])
    THEN IF ud.f[field_name] # "none"
         THEN ~LenZero(ud.f[field_name])
         ELSE FALSE
    ELSE FALSE

\* validate_input raises TypeError on `field in user_data` when user_data is
\* None and the agent declares any input
validate_input_raises(a, input) ==
    input.user_data.is_none
    /\ (required_inputs(a) # <<>> \/ optional_inputs(a) # {})

\* (is_valid, missing_requirements, validated_data)
validate_input(a, input) ==
    LET Missing(fld) == ~_check_field_availability(fld, input.user_data)
        missing == SelectSeq(required_inputs(a), Missing)
    IN  [is_valid |-> Len(missing) = 0,
         missing_requirements |-> missing,
         validated_data |->
            [required_data |-> {fld \in Range(required_inputs(a)) :
                                   fld \notin Range(missing)},
             optional_data |-> {fld \in optional_inputs(a) :
                                   _check_field_availability(fld, input.user_data)},
             context_data |-> input.conversation_context,
             previous_outputs |-> input.previous_agent_outputs,
             session_metadata |-> input.session_metadata]]

NoValidated == [is_valid |-> FALSE, missing_requirements |-> <<>>,
                validated_data |-> [required_data |-> {}, optional_data |-> {},
                                    context_data |-> "none",
                                    previous_outputs |-> NoMap,
                                    session_metadata |-> 0]]

\* validated_input.get("previous_agent_outputs", {}) at the top of
\* _process_core_logic of EducationalRoadmapPlannerAgent and of
\* CollegeScholarshipNavigatorAgent
previous_agent_outputs_read(vd) ==
    IF "previous_agent_outputs" \in DOMAIN vd
    THEN vd["previous_agent_outputs"] ELSE NoMap

\* the agent whose output a list of required_data is extracted from
SourceAgent(l) ==
    CASE l = "recommended_streams" -> "academic_stream_advisor"
      [] l \in {"career_interests", "career_goals"} -> "career_pathway_explorer"
      [] l = "educational_pathway" -> "educational_roadmap_planner"

\* the lists that _process_core_logic of agent a puts in required_data
DerivedLists(a) ==
    IF a = "educational_roadmap_planner"
    THEN {"recommended_streams", "career_interests"}
    ELSE IF a = "college_scholarship_navigator"
    THEN {"career_goals", "educational_pathway"}
    ELSE {}

\* one list: "upstream" when the source agent is a key of the map read and
\* its result is completed and carries the entries, "default" when the
\* `if not <list>` fallback assigns the hard-coded list
ListOrDefault(outs, u) ==
    IF u \in DOMAIN outs
    THEN IF outs[u].status = "completed" /\ outs[u].output_data = "parsed"
         THEN "upstream" ELSE "default"
    ELSE "default"

\* validated_input["required_data"] as _process_core_logic of a rebuilds it
required_data_of(a, vd) ==
    [l \in DerivedLists(a) |->
        ListOrDefault(previous_agent_outputs_read(vd), SourceAgent(l))]

-----------------------------------------------------------------------------
(* AgentResult *)

\* _calculate_confidence_score: a sample of the scores the agents' formulas
\* give (0.95 is the cap of several agents, 0.8333 is 0.7 + 0.1 + 0.1 / 3)
Confidences == {9500 - 1167 * k : k \in 0..MaxConfStep}

\* the successful AgentResult of execute
CompletedResult(a, output, score) ==
    [agent_id |-> a, status |-> "completed", output_data |-> output,
     confidence_score |-> score, error_kind |-> "none", missing |-> <<>>,
     exc |-> "none"]

\* an agent that could not run is reported as skipped
_create_failed_agent_result_skipped(a, kind, missing, exc) ==
    [agent_id |-> a, status |-> "skipped", output_data |-> "empty",
     confidence_score |-> 0, error_kind |-> kind, missing |-> missing,
     exc |-> exc]

\* BaseAgent._create_failed_result
_create_failed_agent_result(a, kind, missing, exc) ==
    [agent_id |-> a, status |-> "failed", output_data |-> "empty",
     confidence_score |-> 0, error_kind |-> kind, missing |-> missing,
     exc |-> exc]

NoAgentResult ==
    [agent_id |-> "none", status |-> "none", output_data |-> "empty",
     confidence_score |-> 0, error_kind |-> "none", missing |-> <<>>,
     exc |-> "none"]

NoInput == [user_data |-> UserDataNone, conversation_context |-> "none",
            previous_agent_outputs |-> NoMap, session_metadata |-> 0]

-----------------------------------------------------------------------------
(* Fleet input validation and execution plan *)

\* a key holding None counts as supplied
FleetFieldMissing_none_is_supplied(v) ==
    IF ~Present(v) THEN TRUE
    ELSE v \in {"empty_dict", "empty_list"}

\* the first loop of _validate_fleet_input: absent, None, or an empty dict/list
FleetFieldMissing(v) ==
    IF ~Present(v) \/ v = "none" THEN TRUE
    ELSE v \in {"empty_dict", "empty_list"}

\* the school fleet's structure check: a truthy value that is not a dict
InvalidFormat(v) == Present(v) /\ Truthy(v) /\ ~IsDict(v)

\* missing_required of _validate_fleet_input, as the list of reported names
_validate_fleet_input(f, ud) ==
    LET Miss(fld) == FleetFieldMissing(ud.f[fld])
        Bad(fld)  == InvalidFormat(ud.f[fld])
    IN  IF f = "college"
        THEN SelectSeq(<<"resume_data">>, Miss)
        ELSE SelectSeq(<<"dbda_scores", "cii_results">>, Miss)
             \o SelectSeq(<<"dbda_scores", "cii_results">>, Bad)

\* a resume_data key is enough, whatever it holds
CollegePlan_by_presence(ud) ==
    IF Present(ud.f["resume_data"])
    THEN <<"profile_analysis", "market_intelligence",
           "skill_development_strategist", "career_optimization_planner",
           "opportunity_matcher">>
    ELSE <<"market_intelligence">>

\* the planner is appended before the strategist it depends on
CollegePlan_planner_before_strategist(ud) ==
    IF Truthy(ud.f["resume_data"])
    THEN <<"profile_analysis", "market_intelligence",
           "career_optimization_planner", "skill_development_strategist",
           "opportunity_matcher">>
    ELSE <<"market_intelligence">>

\* CollegeStudentFleetManager._create_execution_plan
CollegePlan(ud) ==
    LET p1 == IF Truthy(ud.f["resume_data"]) THEN <<"profile_analysis">> ELSE <<>>
        p2 == Append(p1, "market_intelligence")
        p3 == IF "profile_analysis" \in Range(p2)
              THEN Append(p2, "skill_development_strategist") ELSE p2
        p4 == IF "profile_analysis" \in Range(p3)
                 /\ "skill_development_strategist" \in Range(p3)
              THEN Append(p3, "career_optimization_planner") ELSE p3
    IN  IF "profile_analysis" \in Range(p4)
           /\ "career_optimization_planner" \in Range(p4)
        THEN Append(p4, "opportunity_matcher") ELSE p4

\* SchoolStudentFleetManager._create_execution_plan
SchoolPlan(ud) ==
    LET p1 == IF Truthy(ud.f["dbda_scores"]) /\ Truthy(ud.f["cii_results"])
              THEN <<"test_score_interpreter">> ELSE <<>>
        p2 == IF "test_score_interpreter" \in Range(p1)
              THEN Append(p1, "academic_stream_advisor") ELSE p1
        p3 == IF "test_score_interpreter" \in Range(p2)
                 /\ "academic_stream_advisor" \in Range(p2)
              THEN Append(p2, "career_pathway_explorer") ELSE p2
        p4 == IF "academic_stream_advisor" \in Range(p3)
                 /\ "career_pathway_explorer" \in Range(p3)
              THEN Append(p3, "educational_roadmap_planner") ELSE p3
    IN  IF "career_pathway_explorer" \in Range(p4)
           /\ "educational_roadmap_planner" \in Range(p4)
        THEN Append(p4, "college_scholarship_navigator") ELSE p4

_create_execution_plan(f, ud) ==
    IF f = "college" THEN CollegePlan(ud) ELSE SchoolPlan(ud)

-----------------------------------------------------------------------------
(* Fleet aggregation *)

CompletedIn(results) ==
    {a \in DOMAIN results : results[a].status = "completed"}

FailedIn(results) ==
    {a \in DOMAIN results : results[a].status = "failed"}

\* round(num / den, 2) of a score in units of 0.0001: the nearest multiple of
\* 100. The scores are binary floats, so a decimal tie is none: 0.95 * 0.5 is
\* 0.47499999999999998 and rounds to 0.47; for the scores of Confidences the
\* float product of every tie lies below it.
Round2(num, den) ==
    LET k   == (2 * num + 100 * den) \div (200 * den)
        tie == (2 * num + 100 * den) % (200 * den) = 0
    IN  100 * (IF tie THEN k - 1 ELSE k)

\* the mean confidence of the completed agents, not scaled by completion rate
_calculate_fleet_confidence_unscaled(results) ==
    IF CompletedIn(results) = {} THEN 0
    ELSE LET conf == [a \in CompletedIn(results) |-> results[a].confidence_score]
         IN  Round2(SumOver(conf, CompletedIn(results)),
                    Cardinality(CompletedIn(results)))

\* avg_confidence * completion_rate is
\* (sum / len(completed)) * (len(completed) / len(agent_results))
_calculate_fleet_confidence(results) ==
    IF DOMAIN results = {} THEN 0
    ELSE IF CompletedIn(results) = {} THEN 0
    ELSE LET conf == [a \in CompletedIn(results) |-> results[a].confidence_score]
         IN  Round2(SumOver(conf, CompletedIn(results)),
                    Cardinality(DOMAIN results))

\* exactly half of the agents completed counts as partially completed
_determine_fleet_status_at_least_half(results) ==
    LET completed == Cardinality(CompletedIn(results))
        total     == Cardinality(DOMAIN results)
    IN  IF DOMAIN results = {} THEN "failed"
        ELSE IF completed = total THEN "completed"
        ELSE IF 2 * completed >= total THEN "partially_completed"
        ELSE "failed"

\* failed only when no agent completed
_determine_fleet_status_failed_iff_none(results) ==
    LET completed == Cardinality(CompletedIn(results))
        total     == Cardinality(DOMAIN results)
    IN  IF DOMAIN results = {} THEN "failed"
        ELSE IF completed = total THEN "completed"
        ELSE IF completed = 0 THEN "failed"
        ELSE "partially_completed"

_determine_fleet_status(results) ==
    LET completed == Cardinality(CompletedIn(results))
        total     == Cardinality(DOMAIN results)
    IN  IF DOMAIN results = {} THEN "failed"
        ELSE IF completed = total THEN "completed"
        ELSE IF 2 * completed > total THEN "partially_completed"
        ELSE "failed"

\* _create_execution_summary divides by len(agent_results)
_create_execution_summary_raises(results) == DOMAIN results = {}

\* BaseFleetManager._create_failed_result
_create_failed_result(reason, missing) ==
    [status |-> "failed", agent_results |-> NoMap, overall_confidence |-> 0,
     execution_plan |-> <<>>, successful_agents |-> {}, failed_agents |-> {},
     failure_reason |-> reason, missing |-> missing, recommendations |-> <<>>]

\* the canned strings: <<a, i>> is the i-th string of the block of agent a,
\* <<"general", i>> the i-th string of the fleet's closing list
CannedPerAgent(a) ==
    CASE a \in {"profile_analysis", "market_intelligence",
                "skill_development_strategist", "opportunity_matcher"} -> 2
      [] a \in {"test_score_interpreter", "academic_stream_advisor",
                "career_pathway_explorer"} -> 3
      [] OTHER -> 4

GeneralCount(f) == IF f = "college" THEN 4 ELSE 6

GeneralRecommendations(f) == [i \in 1..GeneralCount(f) |-> <<"general", i>>]

\* the blocks are appended whether or not the agent completed
RecommendationsFor_any_status(a, results) ==
    IF a \in DOMAIN results
    THEN [i \in 1..CannedPerAgent(a) |-> <<a, i>>]
    ELSE <<>>

\* the block of agent a: appended when a is a key of the map and its result
\* is completed
RecommendationsFor(a, results) ==
    IF a \in DOMAIN results /\ results[a].status = "completed"
    THEN [i \in 1..CannedPerAgent(a) |-> <<a, i>>]
    ELSE <<>>

\* _generate_fleet_recommendations of fleet f: the if blocks are written in
\* the order of execution_order, the general list is appended last
_generate_fleet_recommendations(f, results) ==
    LET o == execution_order(f)
    IN  RecommendationsFor(o[1], results) \o RecommendationsFor(o[2], results)
        \o RecommendationsFor(o[3], results) \o RecommendationsFor(o[4], results)
        \o RecommendationsFor(o[5], results) \o GeneralRecommendations(f)

\* the FleetResult of a run that reached aggregation
FleetResultOf(f, plan, results) ==
    [status |-> _determine_fleet_status(results), agent_results |-> results,
     overall_confidence |-> _calculate_fleet_confidence(results),
     execution_plan |-> plan, successful_agents |-> CompletedIn(results),
     failed_agents |-> FailedIn(results), failure_reason |-> "none",
     missing |-> <<>>,
     recommendations |-> _generate_fleet_recommendations(f, results)]

NoFleetResult ==
    [status |-> "none", agent_results |-> NoMap, overall_confidence |-> 0,
     execution_plan |-> <<>>, successful_agents |-> {}, failed_agents |-> {},
     failure_reason |-> "none", missing |-> <<>>, recommendations |-> <<>>]

-----------------------------------------------------------------------------
(* Agents: the model call sites of _process_core_logic *)

\* how a call site treats a failure of its model call or of its parser:
\*   "strict"     both propagate out of _process_core_logic
\*   "guarded"    both are caught and an {"error": ...} dict stands in
\*                (the chains of ProfileAnalysisAgent)
\*   "extraction" the model call propagates, a parse failure is caught and an
\*                "Unknown" ExtractionResult stands in (SmartDataExtractionAgent,
\*                used by MarketIntelligenceAgent)
CallSites(a) ==
    CASE a = "profile_analysis" -> {"guarded"}
      [] a = "market_intelligence" -> {"extraction", "strict"}
      [] OTHER -> {"strict"}

\* what llm_model.invoke does: raise, or return text that is JSON or is not
ModelOutcomes == {"raise", "json", "unparsable"}

NoResponse == [site |-> "none", text |-> "none", output |-> "empty"]

-----------------------------------------------------------------------------
(* _parse_llm_response: response text as a list of tokens *)

\* how many members the JSON object of a response has at most
MaxMembers == 2

\* a member (a "key": value pair) of a JSON object:
\*   "a", "b"  plain members
\*   "u"       a member whose string value contains // (a URL)
\*   "v"       a member whose string value contains ,} 
Members == {"a", "b", "u", "v"}

\* what the regular expressions of _clean_json_comments make of "u" and "v":
\*   "ub"  "u" cut at the // inside its string: an unterminated string
\*   "vc"  "v" with the comma inside its string removed: another value
DamagedMembers == {"ub", "vc"}

\* the other tokens of a text: braces, the comma, a newline, a comment
\* (// up to the end of the line), the fences ```json and ```, and text that
\* is no JSON at all
Tokens == Members \cup DamagedMembers \cup {"{", "}", ",", "nl", "cm", "fj", "f", "x"}

\* the JSON objects a response may denote: lists of distinct members
JsonObjects ==
    UNION {{x \in [1..n -> Members] : \A i, j \in 1..n : x[i] = x[j] => i = j}
              : n \in 0..MaxMembers}

\* the JSON text of object x, with a trailing comma after its last member
\* (trailing) and a comment on a line of its own or at the end of the last
\* member's line (comment)
RECURSIVE Joined(_)
Joined(x) ==
    IF Len(x) = 0 THEN <<>>
    ELSE IF Len(x) = 1 THEN <<x[1]>>
    ELSE <<x[1], ",">> \o Joined(Tail(x))

Render(x, trailing, comment) ==
    <<"{">>
    \o (IF comment = "own_line" THEN <<"nl", "cm", "nl">> ELSE <<>>)
    \o Joined(x)
    \o (IF trailing THEN <<",">> ELSE <<>>)
    \o (IF comment = "end_of_line" THEN <<"cm", "nl">> ELSE <<>>)
    \o <<"}">>

\* text wrapped in a markdown fence
wrap_fences(fence, text) ==
    CASE fence = "json"      -> <<"fj", "nl">> \o text \o <<"nl", "f">>
      [] fence = "bare"      -> <<"f", "nl">> \o text \o <<"nl", "f">>
      [] fence = "open_only" -> <<"fj", "nl">> \o text
      [] OTHER               -> text

\* what the model wrote around the JSON
Garbled(garbage, text) ==
    CASE garbage = "prefix" -> <<"x", "nl">> \o text
      [] garbage = "all"    -> <<"x">>
      [] OTHER              -> text

\* the two implementations of _parse_llm_response: "plain" (every agent and
\* sub-agent but one) and "cleaning" (SalaryBenchmarkingSubAgent)
ParserKinds == {"plain", "cleaning"}

\* JsonOutputParser.parse is library code: on text json.loads rejected it
\* either raises or returns what it could salvage
LibraryBehaviours == {"raises", "salvages"}

\* the responses a parser is handed
ParseInputs ==
    [parser : ParserKinds, library : LibraryBehaviours, x : JsonObjects,
     trailing : BOOLEAN, comment : {"none", "own_line", "end_of_line"},
     fence : {"none", "json", "bare", "open_only"},
     garbage : {"none", "prefix", "all"}]

\* response.content of an input
ContentOf(in) ==
    Garbled(in.garbage, wrap_fences(in.fence, Render(in.x, in.trailing, in.comment)))

\* str.strip(): leading and trailing whitespace removed
RECURSIVE LStrip(_)
LStrip(t) == IF t # <<>> /\ Head(t) = "nl" THEN LStrip(Tail(t)) ELSE t

RECURSIVE RStrip(_)
RStrip(t) ==
    IF t # <<>> /\ t[Len(t)] = "nl" THEN RStrip(SubSeq(t, 1, Len(t) - 1)) ELSE t

Strip(t) == RStrip(LStrip(t))

\* only a ```json fence is removed at the head
StripFences_json_fence_only(t) ==
    LET c1 == Strip(t)
        c2 == IF c1 # <<>> /\ Head(c1) = "fj" THEN Tail(c1) ELSE c1
        c3 == IF c2 # <<>> /\ c2[Len(c2)] = "f"
              THEN SubSeq(c2, 1, Len(c2) - 1) ELSE c2
    IN  Strip(c3)

\* the fence removal at the head of _parse_llm_response
StripFences(t) ==
    LET c1 == Strip(t)
        c2 == IF c1 # <<>> /\ Head(c1) \in {"fj", "f"} THEN Tail(c1) ELSE c1
        c3 == IF c2 # <<>> /\ c2[Len(c2)] = "f"
              THEN SubSeq(c2, 1, Len(c2) - 1) ELSE c2
    IN  Strip(c3)

\* re.sub(r"//.*$", "", content, flags=re.MULTILINE): from the first // of a
\* line to the end of that line, whether the // is a comment or inside a string
RECURSIVE RemoveLineComments(_, _)
RemoveLineComments(t, skipping) ==
    IF t = <<>> THEN <<>>
    ELSE IF Head(t) = "nl" THEN <<"nl">> \o RemoveLineComments(Tail(t), FALSE)
    ELSE IF skipping THEN RemoveLineComments(Tail(t), TRUE)
    ELSE IF Head(t) = "cm" THEN RemoveLineComments(Tail(t), TRUE)
    ELSE IF Head(t) = "u" THEN <<"ub">> \o RemoveLineComments(Tail(t), TRUE)
    ELSE <<Head(t)>> \o RemoveLineComments(Tail(t), FALSE)

\* re.sub(r",(\s*[}\]])", r"\1", content): a comma before a closing brace,
\* whitespace between them or not, whether in the structure or inside a string
RECURSIVE RemoveTrailingCommas(_)
RemoveTrailingCommas(t) ==
    IF t = <<>> THEN <<>>
    ELSE IF Head(t) = "v" THEN <<"vc">> \o RemoveTrailingCommas(Tail(t))
    ELSE IF Head(t) = "," /\ LStrip(Tail(t)) # <<>> /\ Head(LStrip(Tail(t))) = "}"
         THEN RemoveTrailingCommas(Tail(t))
    ELSE <<Head(t)>> \o RemoveTrailingCommas(Tail(t))

\* re.sub(r"\n\s*\n", "\n", content)
RECURSIVE CollapseBlankLines(_)
CollapseBlankLines(t) ==
    IF Len(t) < 2 THEN t
    ELSE IF t[1] = "nl" /\ t[2] = "nl" THEN CollapseBlankLines(Tail(t))
    ELSE <<Head(t)>> \o CollapseBlankLines(Tail(t))

\* SalaryBenchmarkingSubAgent._clean_json_comments (no token stands for a
\* /* */ comment, so its second substitution changes nothing)
_clean_json_comments(t) ==
    Strip(CollapseBlankLines(RemoveTrailingCommas(RemoveLineComments(t, FALSE))))

\* the result of a parse: a value, or an error raised
ParseOk(value, by) == [ok |-> TRUE, value |-> value, by |-> by]
ParseError(by) == [ok |-> FALSE, value |-> <<>>, by |-> by]

IsWhitespace(tok) == tok = "nl"
IsMember(tok) == tok \in Members \cup {"vc"}

\* json.loads: an object is { }, its members separated by single commas,
\* whitespace anywhere between the tokens; anything else is rejected
json_loads(t) ==
    LET s == SelectSeq(t, LAMBDA tok : ~IsWhitespace(tok))
        n == Len(s)
        inner == SubSeq(s, 2, n - 1)
        wellFormed ==
            /\ n >= 2 /\ s[1] = "{" /\ s[n] = "}"
            /\ \/ inner = <<>>
               \/ /\ Len(inner) % 2 = 1
                  /\ \A i \in 1..Len(inner) :
                        IF i % 2 = 1 THEN IsMember(inner[i]) ELSE inner[i] = ","
    IN  IF wellFormed THEN ParseOk(SelectSeq(inner, IsMember), "json_loads")
        ELSE ParseError("json_loads")

\* self.output_parser.parse(content), reached after json.loads raised
output_parser_parse(library, t) ==
    IF library = "salvages" /\ SelectSeq(t, IsMember) # <<>>
    THEN ParseOk(SelectSeq(t, IsMember), "output_parser")
    ELSE ParseError("output_parser")

\* _parse_llm_response as a whole
_parse_llm_response(parser, library, text) ==
    LET stripped == StripFences(text)
        cleaned  == IF parser = "cleaning" THEN _clean_json_comments(stripped)
                    ELSE stripped
    IN  IF json_loads(cleaned).ok THEN json_loads(cleaned)
        ELSE output_parser_parse(library, cleaned)

NoParseInput ==
    [parser |-> "none", library |-> "none", x |-> <<>>, trailing |-> FALSE,
     comment |-> "none", fence |-> "none", garbage |-> "none"]

NoParsed == [ok |-> FALSE, value |-> <<>>, by |-> "none"]

\* no parser is running
NoParse ==
    /\ parse_input = NoParseInput
    /\ content = <<>>
    /\ parsed = NoParsed

-----------------------------------------------------------------------------
(* The orchestrator: verticals, requests, WorkflowState, responses *)

\* the Vertical enum
Verticals == {"school_students", "college_upskilling", "career_transition"}

\* what a caller may pass as vertical: None ("none"), a member of the enum,
\* or another string
VerticalArgs == Verticals \cup {"none", "unknown_vertical"}

\* self.agent_fleets: career_transition has no fleet
agent_fleets(v) ==
    CASE v = "school_students" -> "school"
      [] v = "college_upskilling" -> "college"
      [] OTHER -> "none"

\* the session ids callers use; "generated" is the id _initialize_vertical
\* makes up when the request has none
SessionIds == {"s1", "s2"}

RequestFields == Fields \cup {"current_profession"}

\* VerticalValidator.vertical_requirements[v]["required_fields"]
required_fields(v) ==
    CASE v = "school_students" -> <<"dbda_scores", "cii_results">>
      [] v = "college_upskilling" -> <<"resume_data">>
      [] v = "career_transition" ->
            <<"dbda_scores", "cii_results", "current_profession">>
      [] OTHER -> <<>>

\* the kinds of value a request carries in a field. career_transition has
\* no fleet, so what is read of its fields is whether they are missing.
RequestKinds(v) ==
    IF v = "career_transition" THEN {"absent", "dict"}
    ELSE {"absent", "none", "empty_dict", "dict"}

\* the user_data of a request: a dict with or without a session_id; the
\* fields the vertical does not require are left out
RequestDatas(v) ==
    {[session_id |-> sid, f |-> g] :
        sid \in SessionIds \cup {"absent"},
        g \in {h \in [RequestFields -> RequestKinds(v)] :
                 \A x \in RequestFields \ Range(required_fields(v)) :
                    h[x] = "absent"}}

NoRequestData == [session_id |-> "absent", f |-> [x \in RequestFields |-> "absent"]]

\* the user_data the fleet is handed
FleetUserData(ud) == UserDataOf([x \in Fields |-> ud.f[x]])

\* `field not in user_data or user_data[field] is None`
RequestFieldMissing(v) == ~Present(v) \/ v = "none"

\* VerticalValidator.validate_user_data: (is_valid, missing_required)
validate_user_data(v, ud) ==
    IF v \notin Verticals
    THEN [is_valid |-> FALSE, missing_required |-> <<"invalid_vertical">>]
    ELSE LET Miss(fld) == RequestFieldMissing(ud.f[fld])
             missing == SelectSeq(required_fields(v), Miss)
         IN  [is_valid |-> missing = <<>>, missing_required |-> missing]

\* state["agent_outputs"]: {} at the start, the integrator's "outputs" dict
\* after a fleet run, the placeholder dict of _handle_follow_up
NoFleetSummary == [status |-> "none", confidence |-> 0, recommendations |-> <<>>]

EmptyOutputs ==
    [kind |-> "empty", fleet_summary |-> NoFleetSummary,
     agent_outputs |-> NoMap, session_context |-> "none"]

\* FleetIntegrator.execute_workflow_for_orchestrator(...)["outputs"]
FleetOutputs(fr) ==
    [kind |-> "fleet",
     fleet_summary |-> [status |-> fr.status,
                        confidence |-> fr.overall_confidence,
                        recommendations |-> fr.recommendations],
     agent_outputs |-> [a \in DOMAIN fr.agent_results |->
                           [status |-> fr.agent_results[a].status,
                            confidence |-> fr.agent_results[a].confidence_score,
                            data |-> fr.agent_results[a].output_data]],
     session_context |-> "none"]

FollowUpOutputs(ctx) ==
    [kind |-> "follow_up", fleet_summary |-> NoFleetSummary,
     agent_outputs |-> NoMap, session_context |-> ctx]

\* bool(agent_outputs)
OutputsTruthy(outs) == outs.kind # "empty"

\* the results a fleet run over `plan` may end with: all agents completed,
\* the first one failed, all failed
RunResults(plan) ==
    {[a \in Range(plan) |->
         IF a \in F
         THEN _create_failed_agent_result(a, "processing_error", <<>>,
                                          "model_error")
         ELSE CompletedResult(a, "parsed", 9500)] :
        F \in {{}, Range(plan), {plan[k] : k \in {1} \cap DOMAIN plan}}}

\* what fleet f's execute_workflow may return for the user_data ud (a dict)
FleetOutcomes(f, ud) ==
    IF _validate_fleet_input(f, ud) # <<>>
    THEN {_create_failed_result("missing_data", _validate_fleet_input(f, ud))}
    ELSE {FleetResultOf(f, _create_execution_plan(f, ud), results) :
             results \in RunResults(_create_execution_plan(f, ud))}

\* the error_state messages, by kind
ErrorStates == {"no_vertical", "missing_required_data", "validation_error",
                "fleet_not_available", "processing_failed", "session_not_found"}

\* _get_error_suggestions: which of the three lists
_get_error_suggestions(error) ==
    CASE error = "missing_required_data" -> "provide_data"
      [] error = "no_vertical" -> "choose_vertical"
      [] OTHER -> "try_again"

\* the response dicts: `keys` is the set of keys of the dict; a key that is
\* not in the dict has the value "none" (EmptyOutputs for outputs)
Response(success, keys, error, suggested, vertical, outputs) ==
    [success |-> success, keys |-> keys, error |-> error,
     suggested_actions |-> suggested, vertical |-> vertical,
     outputs |-> outputs]

\* final_response is None
NoFinalResponse == Response(FALSE, {}, "none", "none", "none", EmptyOutputs)

\* the response of the error branch and of _handle_error
ErrorResponse(error) ==
    Response(FALSE,
             {"success", "error", "vertical_options", "suggested_actions",
              "timestamp"},
             error, _get_error_suggestions(error), "none", EmptyOutputs)

\* the response of the `not agent_outputs` branch
NoResultsResponse ==
    Response(FALSE, {"success", "error", "timestamp", "debug_info"},
             "no_analysis_results", "none", "none", EmptyOutputs)

SuccessResponse(vertical, outputs) ==
    Response(TRUE,
             {"success", "vertical", "session_id", "timestamp", "outputs",
              "summary", "next_actions", "conversation_context"},
             "none", "none", vertical, outputs)

\* the dict start_counseling_session returns when final_response is missing
NoFinalResponseReply ==
    Response(FALSE, {"success", "error", "timestamp", "debug_info"},
             "no_final_response", "none", "none", EmptyOutputs)

\* the success branch is taken whenever error_state is unset
ResponseFor_success_unless_error(st) ==
    IF st.error_state # "none" THEN ErrorResponse(st.error_state)
    ELSE SuccessResponse(st.selected_vertical, st.agent_outputs)

\* the three branches of _generate_final_response
ResponseFor(st) ==
    IF st.error_state # "none" THEN ErrorResponse(st.error_state)
    ELSE IF ~OutputsTruthy(st.agent_outputs) THEN NoResultsResponse
    ELSE SuccessResponse(st.selected_vertical, st.agent_outputs)

\* _generate_final_response(state)
_generate_final_response(st) == [st EXCEPT !.final_response = ResponseFor(st)]

\* initial_state of start_counseling_session / ask_follow_up_question
InitialState(v, ud) ==
    [selected_vertical |-> v, user_data |-> ud, agent_outputs |-> EmptyOutputs,
     conversation_context |-> "empty", error_state |-> "none",
     workflow_step |-> "none", processing_complete |-> FALSE,
     final_response |-> NoFinalResponse]

\* ConversationManager.get_session_context(sid) is a non-empty dict
HasSession(contexts, sid) == sid \in DOMAIN contexts

\* any session context makes a request a follow-up
IsFollowUp_any_session(contexts, sid) == DOMAIN contexts # {}

\* `session_id and self.conversation_manager.get_session_context(session_id)`
IsFollowUp(contexts, sid) == sid # "absent" /\ HasSession(contexts, sid)

\* _validate_input(state), given the session contexts
_validate_input(contexts, st) ==
    IF st.selected_vertical = "none"
    THEN [st EXCEPT !.error_state = "no_vertical", !.workflow_step = "error"]
    ELSE IF validate_user_data(st.selected_vertical, st.user_data).is_valid
    THEN [st EXCEPT !.workflow_step = "valid",
                    !.conversation_context = "validated"]
    ELSE IF IsFollowUp(contexts, st.user_data.session_id)
    THEN [st EXCEPT !.workflow_step = "follow_up"]
    ELSE [st EXCEPT !.error_state = "missing_required_data",
                    !.workflow_step = "error"]

\* the conditional edge after validate_input
_input_validation_condition(st) ==
    IF st.workflow_step = "none" THEN "error" ELSE st.workflow_step

\* the follow-up branch leads into the fleet run
NodeAfter_follow_up_executes(node, st) ==
    CASE node = "validate_input" ->
            (CASE _input_validation_condition(st) = "valid" -> "initialize_vertical"
               [] _input_validation_condition(st) = "follow_up" -> "handle_follow_up"
               [] OTHER -> "handle_error")
      [] node = "initialize_vertical" -> "execute_vertical_workflow"
      [] node = "execute_vertical_workflow" -> "generate_final_response"
      [] node = "handle_follow_up" -> "execute_vertical_workflow"
      [] OTHER -> "END"

\* the node an edge of the graph leads to
NodeAfter(node, st) ==
    CASE node = "validate_input" ->
            (CASE _input_validation_condition(st) = "valid" -> "initialize_vertical"
               [] _input_validation_condition(st) = "follow_up" -> "handle_follow_up"
               [] OTHER -> "handle_error")
      [] node = "initialize_vertical" -> "execute_vertical_workflow"
      [] node = "execute_vertical_workflow" -> "generate_final_response"
      [] node = "handle_follow_up" -> "generate_final_response"
      [] OTHER -> "END"

\* no invocation has been made
NoInvocation ==
    /\ state = InitialState("none", NoRequestData)
    /\ trace = <<>>
    /\ entry = "none"
    /\ session_response = NoFinalResponse

\* the orchestrator after construction
NoSession ==
    /\ session_contexts = NoMap
    /\ NoInvocation

-----------------------------------------------------------------------------
(* Processing notes of the agent instances *)

\* how many agent.execute calls are followed
MaxExecutions == 3

\* how many notes one _process_core_logic adds at most
MaxNotesPerCall == 2

\* the agent instances followed; the orchestrator is a singleton, so every
\* session runs the same instances
NoteAgents == {"profile_analysis", "market_intelligence"}

\* an instance before its first _add_processing_note has no
\* _processing_notes attribute
NoNotesAttribute == [has |-> FALSE, notes |-> <<>>]

\* _add_processing_note, k times during execution number n: the attribute is
\* created on first use and the notes are appended to that one list
_add_processing_note(attr, k, n) ==
    IF k = 0 THEN attr
    ELSE [has |-> TRUE, notes |-> attr.notes \o [j \in 1..k |-> n]]

\* the completed AgentResult of execute: metadata["processing_notes"] is
\* getattr(self, "_processing_notes", []), the instance's own list object
\* when the attribute exists (aliased) and a new empty list otherwise
CompletedWithNotes(a, attr) ==
    [agent_id |-> a, status |-> "completed", aliased |-> attr.has,
     notes_at_return |-> attr.notes]

\* _create_failed_result: the metadata holds failure_timestamp only
FailedWithoutNotes(a) ==
    [agent_id |-> a, status |-> "failed", aliased |-> FALSE,
     notes_at_return |-> <<>>]

\* what metadata["processing_notes"] of a returned result reads now
MetadataNotes(r, notes) ==
    IF r.aliased THEN notes[r.agent_id].notes ELSE r.notes_at_return

\* no agent was executed
NoExecution ==
    /\ processing_notes = [a \in NoteAgents |-> NoNotesAttribute]
    /\ returned_results = <<>>
    /\ collected = 0

-----------------------------------------------------------------------------
(* The session store of the API layer (server/run.py) *)

\* how many analysis requests are followed
MaxSubmissions == 3

\* SessionStatus
SessionStatuses == {"pending", "processing", "completed", "failed"}

\* a session id that is not a key of session_storage
NoEntry == [status |-> "absent", data |-> "none", error |-> "none"]

\* update_session_status: under session_lock, the entry is created if it is
\* missing and status, data and error are all overwritten
update_session_status(storage, session_id, status, data, error) ==
    [storage EXCEPT ![session_id] =
        [status |-> status, data |-> data, error |-> error]]

\* get_session_status: under session_lock, the entry or the pending default
get_session_status(storage, session_id) ==
    IF storage[session_id] = NoEntry
    THEN [status |-> "pending", data |-> "none", error |-> "none"]
    ELSE storage[session_id]

\* a background task: the process_*_background call that request number id
\* added for its session
Tasks == [id : 1..MaxSubmissions, session_id : SessionIds]

NoTask == [id |-> 0, session_id |-> "none"]

NoReply == [session_id |-> "none", status |-> "none", results |-> "none",
            error |-> "none", can_chat |-> FALSE]

\* the data of the APIResponse of get_analysis_status
StatusReply(session_id, info) ==
    [session_id |-> session_id, status |-> info.status,
     results |-> IF info.status = "completed" THEN info.data ELSE "none",
     error |-> IF info.status = "failed" THEN info.error ELSE "none",
     can_chat |-> info.status = "completed"]

\* the API layer has received no request
NoApi ==
    /\ session_storage = [sid \in SessionIds |-> NoEntry]
    /\ background_tasks = {}
    /\ running_task = NoTask
    /\ submissions = 0
    /\ status_reply = NoReply

-----------------------------------------------------------------------------
(* State after construction *)

\* no exception was raised; otherwise exc names it and caught_by says which
\* handler caught it: "core_logic" (a try block of the agent's own code),
\* "execute" (the except branch of BaseAgent.execute) or "nobody"
NoThrow == [exc |-> "none", caught_by |-> "none"]

\* no call is on the stack
Idle == pc = "idle"

\* the values of the locals of a call that is not running
NoCall ==
    /\ caller = "none"
    /\ fleet = "none"
    /\ user_data = UserDataNone
    /\ execution_plan = <<>>
    /\ pos = 0
    /\ agent_results = NoMap
    /\ previous_outputs = NoMap
    /\ cur_agent = "none"
    /\ agent_input = NoInput
    /\ validated = NoValidated
    /\ response = NoResponse
    /\ agent_result = NoAgentResult
    /\ fleet_result = NoFleetResult
    /\ raised = "none"
    /\ thrown = NoThrow
    /\ model_calls = {}
    /\ model_raised = {}
    /\ invocations = <<>>

Init ==
    /\ agents \in Registries
    /\ pc = "idle"
    /\ NoCall
    /\ NoParse
    /\ NoSession
    /\ NoExecution
    /\ NoApi

-----------------------------------------------------------------------------
(* BaseFleetManager.execute_workflow *)

\* entry of execute_workflow up to the start of the agent loop
StartWorkflow(f, ud) ==
    /\ UNCHANGED <<parserVars, orchestratorVars, extraVars>>
    /\ Idle
    /\ fleet' = f
    /\ user_data' = ud
    /\ IF ud.is_none
       THEN \* `field not in user_data` raises TypeError, caught at line 183
            /\ fleet_result' = _create_failed_result("execution_error", <<>>)
            /\ execution_plan' = <<>>
            /\ pos' = 0
            /\ pc' = "done"
       ELSE IF _validate_fleet_input(f, ud) # <<>>
       THEN /\ fleet_result' =
                  _create_failed_result("missing_data", _validate_fleet_input(f, ud))
            /\ execution_plan' = <<>>
            /\ pos' = 0
            /\ pc' = "done"
       ELSE /\ fleet_result' = NoFleetResult
            /\ execution_plan' = _create_execution_plan(f, ud)
            /\ pos' = 1
            /\ pc' = "loop"
    /\ UNCHANGED <<agents, caller, agent_results, previous_outputs, cur_agent,
                   agent_input, validated, response, agent_result, raised,
                   thrown, model_calls, model_raised, invocations>>

\* loop head: the planned agent is not registered in the fleet
SkipAgent ==
    /\ UNCHANGED <<parserVars, orchestratorVars, extraVars>>
    /\ pc = "loop"
    /\ pos <= Len(execution_plan)
    /\ execution_plan[pos] \notin agents[fleet]
    /\ pos' = pos + 1
    /\ UNCHANGED <<agents, pc, caller, fleet, user_data, execution_plan,
                   agent_results, previous_outputs, cur_agent, agent_input,
                   validated, response, agent_result, fleet_result, raised,
                   thrown, model_calls, model_raised, invocations>>

\* loop head: build the AgentInput and call agent.execute
InvokeAgent ==
    /\ UNCHANGED <<parserVars, orchestratorVars, extraVars>>
    /\ pc = "loop"
    /\ pos <= Len(execution_plan)
    /\ execution_plan[pos] \in agents[fleet]
    /\ cur_agent' = execution_plan[pos]
    /\ agent_input' = [user_data |-> user_data,
                       conversation_context |-> "context",
                       previous_agent_outputs |-> previous_outputs,
                       session_metadata |-> pos]
    /\ invocations' = Append(invocations,
                             [agent_id |-> execution_plan[pos], pos |-> pos,
                              previous_agent_outputs |-> previous_outputs,
                              returned |-> Cardinality(DOMAIN agent_results)])
    /\ caller' = "fleet"
    /\ validated' = NoValidated
    /\ response' = NoResponse
    /\ agent_result' = NoAgentResult
    /\ thrown' = NoThrow
    /\ pc' = "agent_validate"
    /\ UNCHANGED <<agents, fleet, user_data, execution_plan, pos, agent_results,
                   previous_outputs, fleet_result, raised, model_calls, model_raised>>

\* every result threaded forward, whatever its status
ThreadForward_any_status(result) == TRUE

\* only a completed result is threaded forward
ThreadForward(result) == result.status = "completed"

\* a failed result ends the loop
NextPosition_abort_on_failure(result) ==
    IF result.status = "failed" THEN Len(execution_plan) + 1 ELSE pos + 1

\* the loop goes on to the next position whatever the result
NextPosition(result) == pos + 1

\* agent.execute returned `result` to its caller; for the fleet this is the
\* rest of the loop body
ReturnResult(result) ==
    /\ agent_result' = result
    /\ IF caller = "fleet"
       THEN /\ agent_results' =
                  [a \in DOMAIN agent_results \cup {cur_agent} |->
                      IF a = cur_agent THEN result ELSE agent_results[a]]
            /\ previous_outputs' =
                  IF ThreadForward(result)
                  THEN [a \in DOMAIN previous_outputs \cup {cur_agent} |->
                           IF a = cur_agent THEN result ELSE previous_outputs[a]]
                  ELSE previous_outputs
            /\ pos' = NextPosition(result)
            /\ pc' = "loop"
       ELSE /\ pc' = "done"
            /\ UNCHANGED <<agent_results, previous_outputs, pos>>
    /\ UNCHANGED <<agents, caller, fleet, user_data, execution_plan, cur_agent,
                   agent_input, fleet_result, raised, invocations>>

\* after the loop: metrics and the FleetResult
Aggregate ==
    /\ UNCHANGED <<parserVars, orchestratorVars, extraVars>>
    /\ pc = "loop"
    /\ pos > Len(execution_plan)
    /\ fleet_result' =
          IF _create_execution_summary_raises(agent_results)
          THEN _create_failed_result("execution_error", <<>>)
          ELSE FleetResultOf(fleet, execution_plan, agent_results)
    /\ pc' = "done"
    /\ UNCHANGED <<agents, caller, fleet, user_data, execution_plan, pos,
                   agent_results, previous_outputs, cur_agent, agent_input,
                   validated, response, agent_result, raised, thrown,
                   model_calls, model_raised, invocations>>

-----------------------------------------------------------------------------
(* BaseAgent.execute *)

\* agent.execute called outside a fleet, on an agent that was constructed
DirectExecute(a, ud) ==
    /\ UNCHANGED <<parserVars, orchestratorVars, extraVars>>
    /\ Idle
    /\ a \in agents[FleetOf(a)]
    /\ caller' = "direct"
    /\ user_data' = ud
    /\ cur_agent' = a
    /\ agent_input' = [user_data |-> ud, conversation_context |-> "context",
                       previous_agent_outputs |-> NoMap, session_metadata |-> 0]
    /\ pc' = "agent_validate"
    /\ UNCHANGED <<agents, fleet, execution_plan, pos, agent_results,
                   previous_outputs, validated, response, agent_result,
                   fleet_result, raised, thrown, model_calls, model_raised, invocations>>

\* the except branch of execute: a failed result carrying the message
ExceptionResult(a, exc) ==
    _create_failed_agent_result(a, "processing_error", <<>>, exc)

\* a parse error is let through by execute
CaughtByExecute_except_parse_error(exc) == exc # "parse_error"

\* `except Exception` of execute catches whatever the try block raises
CaughtByExecute(exc) == TRUE

\* exception exc propagates out of the try block of execute
Throw(exc) ==
    IF CaughtByExecute(exc)
    THEN /\ thrown' = [exc |-> exc, caught_by |-> "execute"]
         /\ ReturnResult(ExceptionResult(cur_agent, exc))
    ELSE \* it leaves execute; in a fleet run the except branch of
         \* execute_workflow turns it into a failed FleetResult
         /\ thrown' = [exc |-> exc, caught_by |-> "nobody"]
         /\ raised' = exc
         /\ fleet_result' = IF caller = "fleet"
                            THEN _create_failed_result("execution_error", <<>>)
                            ELSE fleet_result
         /\ pc' = "done"
         /\ UNCHANGED <<agents, caller, fleet, user_data, execution_plan, pos,
                        agent_results, previous_outputs, cur_agent, agent_input,
                        agent_result, invocations>>

\* _validate_input_with_tracing and the `if not is_valid` branch
AgentValidate ==
    /\ UNCHANGED <<parserVars, orchestratorVars, extraVars>>
    /\ pc = "agent_validate"
    /\ IF validate_input_raises(cur_agent, agent_input)
       THEN /\ Throw("validation_error")
            /\ UNCHANGED <<validated, response, model_calls, model_raised>>
       ELSE /\ validated' = validate_input(cur_agent, agent_input)
            /\ IF ~validate_input(cur_agent, agent_input).is_valid
               THEN /\ ReturnResult(_create_failed_agent_result(cur_agent,
                          "missing_inputs",
                          validate_input(cur_agent, agent_input).missing_requirements,
                          "none"))
                    /\ UNCHANGED <<response, thrown, model_calls, model_raised>>
               ELSE /\ pc' = "agent_model"
                    /\ UNCHANGED <<agents, caller, fleet, user_data,
                                   execution_plan, pos, agent_results,
                                   previous_outputs, cur_agent, agent_input,
                                   response, agent_result, fleet_result, raised,
                                   thrown, model_calls, model_raised, invocations>>

\* _process_core_logic: llm_model.invoke at one call site
AgentModelCall(site, out) ==
    /\ UNCHANGED <<parserVars, orchestratorVars, extraVars>>
    /\ pc = "agent_model"
    /\ site \in CallSites(cur_agent)
    /\ model_calls' = model_calls \cup {cur_agent}
    /\ model_raised' = IF out = "raise" THEN model_raised \cup {cur_agent}
                       ELSE model_raised
    /\ IF out = "raise" /\ site # "guarded"
       THEN /\ Throw("model_invocation_error")
            /\ UNCHANGED <<validated, response>>
       ELSE IF out = "raise"
       THEN \* the chain's own except block returns an {"error": ...} dict
            /\ thrown' = [exc |-> "model_invocation_error",
                          caught_by |-> "core_logic"]
            /\ response' = [site |-> site, text |-> out, output |-> "fallback"]
            /\ pc' = "agent_confidence"
            /\ UNCHANGED <<agents, caller, fleet, user_data, execution_plan, pos,
                           agent_results, previous_outputs, cur_agent,
                           agent_input, validated, agent_result, fleet_result,
                           raised, invocations>>
       ELSE /\ response' = [site |-> site, text |-> out, output |-> "empty"]
            /\ pc' = "agent_parse"
            /\ UNCHANGED <<agents, caller, fleet, user_data, execution_plan, pos,
                           agent_results, previous_outputs, cur_agent,
                           agent_input, validated, agent_result, fleet_result,
                           raised, thrown, invocations>>

\* the call site's parser: json.loads, then the structured output parser
ParseSucceeds(text) == text = "json"

\* _process_core_logic: parsing the response of the call site
AgentParse ==
    /\ UNCHANGED <<parserVars, orchestratorVars, extraVars>>
    /\ pc = "agent_parse"
    /\ IF ParseSucceeds(response.text)
       THEN /\ response' = [response EXCEPT !.output = "parsed"]
            /\ pc' = "agent_confidence"
            /\ UNCHANGED <<agents, caller, fleet, user_data, execution_plan, pos,
                           agent_results, previous_outputs, cur_agent,
                           agent_input, validated, agent_result, fleet_result,
                           raised, thrown, model_calls, model_raised, invocations>>
       ELSE IF response.site = "strict"
       THEN /\ Throw("parse_error")
            /\ UNCHANGED <<validated, response, model_calls, model_raised>>
       ELSE \* the caller of the parser catches it and substitutes a value
            /\ thrown' = [exc |-> "parse_error", caught_by |-> "core_logic"]
            /\ response' = [response EXCEPT !.output = "fallback"]
            /\ pc' = "agent_confidence"
            /\ UNCHANGED <<agents, caller, fleet, user_data, execution_plan, pos,
                           agent_results, previous_outputs, cur_agent,
                           agent_input, validated, agent_result, fleet_result,
                           raised, model_calls, model_raised, invocations>>

\* _calculate_confidence_score and the successful AgentResult
AgentConfidence(score) ==
    /\ UNCHANGED <<parserVars, orchestratorVars, extraVars>>
    /\ pc = "agent_confidence"
    /\ ReturnResult(CompletedResult(cur_agent, response.output, score))
    /\ UNCHANGED <<validated, response, thrown, model_calls, model_raised>>

\* _calculate_confidence_score raises (an output that is not the dict the
\* agent's formula reads)
AgentConfidenceRaises ==
    /\ UNCHANGED <<parserVars, orchestratorVars, extraVars>>
    /\ pc = "agent_confidence"
    /\ Throw("confidence_error")
    /\ UNCHANGED <<validated, response, model_calls, model_raised>>

\* the call has returned (pc = "done", its result in fleet_result or
\* agent_result): the caller takes the result and the locals are gone
CallReturns ==
    /\ UNCHANGED <<parserVars, orchestratorVars, extraVars>>
    /\ pc = "done"
    /\ pc' = "idle"
    /\ caller' = "none"
    /\ fleet' = "none"
    /\ user_data' = UserDataNone
    /\ execution_plan' = <<>>
    /\ pos' = 0
    /\ agent_results' = NoMap
    /\ previous_outputs' = NoMap
    /\ cur_agent' = "none"
    /\ agent_input' = NoInput
    /\ validated' = NoValidated
    /\ response' = NoResponse
    /\ agent_result' = NoAgentResult
    /\ fleet_result' = NoFleetResult
    /\ raised' = "none"
    /\ thrown' = NoThrow
    /\ model_calls' = {}
    /\ model_raised' = {}
    /\ invocations' = <<>>
    /\ UNCHANGED agents

-----------------------------------------------------------------------------
(* Specification *)

Next ==
    \/ \E f \in Fleets : \E ud \in UserDatas(f) : StartWorkflow(f, ud)
    \/ SkipAgent
    \/ InvokeAgent
    \/ Aggregate
    \/ \E a \in AgentIds : \E ud \in UserDatas(FleetOf(a)) : DirectExecute(a, ud)
    \/ AgentValidate
    \/ \E site \in {"strict", "guarded", "extraction"} :
          \E out \in ModelOutcomes : AgentModelCall(site, out)
    \/ AgentParse
    \/ \E score \in Confidences : AgentConfidence(score)
    \/ AgentConfidenceRaises
    \/ CallReturns

Spec == Init /\ [][Next]_vars

-----------------------------------------------------------------------------
(* _parse_llm_response, step by step *)

\* a parser is handed a response; no agent call is modelled around it
ParserInit ==
    /\ agents = [f \in Fleets |-> {}]
    /\ NoCall
    /\ parse_input \in ParseInputs
    /\ content = ContentOf(parse_input)
    /\ parsed = NoParsed
    /\ NoSession
    /\ NoExecution
    /\ NoApi
    /\ pc = "parse_strip"

\* the variables of the agent and fleet calls
callVars == <<agents, caller, fleet, user_data, execution_plan, pos,
              agent_results, previous_outputs, cur_agent, agent_input,
              validated, response, agent_result, fleet_result, raised, thrown,
              model_calls, model_raised, invocations>>

\* strip, remove the opening and the closing fence, strip
ParseStripFences ==
    /\ pc = "parse_strip"
    /\ content' = StripFences(content)
    /\ pc' = IF parse_input.parser = "cleaning" THEN "parse_clean"
             ELSE "parse_json"
    /\ UNCHANGED <<callVars, orchestratorVars, extraVars, parse_input, parsed>>

\* content = self._clean_json_comments(content), of the cleaning parser
ParseCleanComments ==
    /\ pc = "parse_clean"
    /\ content' = _clean_json_comments(content)
    /\ pc' = "parse_json"
    /\ UNCHANGED <<callVars, orchestratorVars, extraVars, parse_input, parsed>>

\* return json.loads(content), or on JSONDecodeError go on to the fallback
ParseJsonLoads ==
    /\ pc = "parse_json"
    /\ IF json_loads(content).ok
       THEN parsed' = json_loads(content) /\ pc' = "parse_done"
       ELSE parsed' = parsed /\ pc' = "parse_fallback"
    /\ UNCHANGED <<callVars, orchestratorVars, extraVars, parse_input, content>>

\* self.output_parser.parse(content); its exception is re-raised as ValueError
ParseOutputParser ==
    /\ pc = "parse_fallback"
    /\ parsed' = output_parser_parse(parse_input.library, content)
    /\ pc' = "parse_done"
    /\ UNCHANGED <<callVars, orchestratorVars, extraVars, parse_input, content>>

ParserNext ==
    \/ ParseStripFences
    \/ ParseCleanComments
    \/ ParseJsonLoads
    \/ ParseOutputParser

ParserSpec == ParserInit /\ [][ParserNext]_vars

-----------------------------------------------------------------------------
(* The fleet managers' pure methods, called on their own *)

\* what an AgentResult under key a of an agent_results map may be
OutputKinds == {"parsed", "fallback"}

\* the two highest confidence scores
MapScores == {c \in Confidences : c >= 9500 - 1167}

ResultsOfAgent(a) ==
    {ExceptionResult(a, "model_error")} \cup
    {CompletedResult(a, out, score) : out \in OutputKinds, score \in MapScores}

\* the map that holds t[k], unless it is NoAgentResult, under the k-th agent
\* of fleet f
MapOfResults(f, t) ==
    LET o == execution_order(f)
        PosOf(a) == CHOOSE k \in 1..Len(o) : o[k] = a
    IN  [a \in {o[k] : k \in {n \in 1..Len(o) : t[n] # NoAgentResult}} |->
            t[PosOf(a)]]

\* what position k of fleet f may hold: a result of its agent, or none
ResultOrNone(f, k) == ResultsOfAgent(execution_order(f)[k]) \cup {NoAgentResult}

FleetFunctionsInit ==
    /\ agents = [f \in Fleets |-> {}]
    /\ NoCall
    /\ NoParse
    /\ NoSession
    /\ NoExecution
    /\ NoApi
    /\ pc = "fn_idle"

\* fleet f's _create_execution_plan(ud); on None, user_data.get raises
CallCreateExecutionPlan(f, ud) ==
    /\ pc = "fn_idle"
    /\ fleet' = f
    /\ user_data' = ud
    /\ IF ud.is_none
       THEN /\ raised' = "attribute_error"
            /\ UNCHANGED execution_plan
       ELSE /\ execution_plan' = _create_execution_plan(f, ud)
            /\ UNCHANGED raised
    /\ pc' = "fn_planned"
    /\ UNCHANGED <<agents, caller, pos, agent_results, previous_outputs,
                   cur_agent, agent_input, validated, response, agent_result,
                   fleet_result, thrown, model_calls, model_raised, invocations, parserVars,
                   orchestratorVars, extraVars>>

\* fleet f's _generate_fleet_recommendations(results); the list is kept in
\* the field of the FleetResult that execute_workflow puts it in
CallGenerateFleetRecommendations(f, results) ==
    /\ pc = "fn_idle"
    /\ fleet' = f
    /\ agent_results' = results
    /\ fleet_result' =
          [fleet_result EXCEPT
              !.recommendations = _generate_fleet_recommendations(f, results)]
    /\ pc' = "fn_recommended"
    /\ UNCHANGED <<agents, caller, user_data, execution_plan, pos,
                   previous_outputs, cur_agent, agent_input, validated,
                   response, agent_result, raised, thrown, model_calls, model_raised,
                   invocations, parserVars,
                   orchestratorVars, extraVars>>

FleetFunctionsNext ==
    \/ \E f \in Fleets : \E ud \in UserDatas(f) : CallCreateExecutionPlan(f, ud)
    \/ \E f \in Fleets :
          \E r1 \in ResultOrNone(f, 1), r2 \in ResultOrNone(f, 2),
             r3 \in ResultOrNone(f, 3), r4 \in ResultOrNone(f, 4),
             r5 \in ResultOrNone(f, 5) :
             CallGenerateFleetRecommendations(
                 f, MapOfResults(f, <<r1, r2, r3, r4, r5>>))

FleetFunctionsSpec == FleetFunctionsInit /\ [][FleetFunctionsNext]_vars

-----------------------------------------------------------------------------
(* MainOrchestrator: the workflow graph, node by node *)

OrchestratorInit ==
    /\ agents = [f \in Fleets |-> {}]
    /\ NoCall
    /\ NoParse
    /\ NoSession
    /\ NoExecution
    /\ NoApi
    /\ pc = "o_idle"

\* workflow.invoke(initial_state): the graph starts at validate_input
Invoke(method, v, ud) ==
    /\ entry' = method
    /\ state' = InitialState(v, ud)
    /\ trace' = <<>>
    /\ session_response' = NoFinalResponse
    /\ pc' = "validate_input"
    /\ UNCHANGED <<session_contexts, callVars, parserVars, extraVars>>

StartCounselingSession(v, ud) ==
    /\ pc = "o_idle"
    /\ Invoke("start_counseling_session", v, ud)

\* selected_vertical is None, user_data has the session id only
AskFollowUpQuestion(sid) ==
    /\ pc = "o_idle"
    /\ Invoke("ask_follow_up_question", "none",
              [NoRequestData EXCEPT !.session_id = sid])

\* node `node` ran and left the state st; the graph follows its edge
NodeRan(node, st) ==
    /\ trace' = Append(trace, node)
    /\ state' = st
    /\ pc' = NodeAfter(node, st)
    /\ UNCHANGED <<entry, session_response, callVars, parserVars, extraVars>>

ValidateInput ==
    /\ pc = "validate_input"
    /\ NodeRan("validate_input", _validate_input(session_contexts, state))
    /\ UNCHANGED session_contexts

\* _initialize_vertical: initialize_session stores a context under the id
InitializeVertical ==
    /\ pc = "initialize_vertical"
    /\ LET sid == IF state.user_data.session_id = "absent" THEN "generated"
                  ELSE state.user_data.session_id
       IN  session_contexts' =
              [x \in DOMAIN session_contexts \cup {sid} |->
                  IF x = sid THEN state.selected_vertical
                  ELSE session_contexts[x]]
    /\ NodeRan("initialize_vertical",
               [state EXCEPT !.conversation_context = "initialized"])

\* _execute_vertical_workflow: the fleet of the vertical runs, or there is none
ExecuteVerticalWorkflow ==
    /\ pc = "execute_vertical_workflow"
    /\ IF agent_fleets(state.selected_vertical) = "none"
       THEN NodeRan("execute_vertical_workflow",
                    [state EXCEPT !.error_state = "fleet_not_available",
                                  !.processing_complete = FALSE])
       ELSE \E fr \in FleetOutcomes(agent_fleets(state.selected_vertical),
                                    FleetUserData(state.user_data)) :
               NodeRan("execute_vertical_workflow",
                       [state EXCEPT !.agent_outputs = FleetOutputs(fr),
                                     !.processing_complete = TRUE])
    /\ UNCHANGED session_contexts

HandleFollowUp ==
    /\ pc = "handle_follow_up"
    /\ IF ~HasSession(session_contexts, state.user_data.session_id)
       THEN NodeRan("handle_follow_up",
                    [state EXCEPT !.error_state = "session_not_found"])
       ELSE NodeRan("handle_follow_up",
                    [state EXCEPT
                        !.agent_outputs = FollowUpOutputs(
                            session_contexts[state.user_data.session_id]),
                        !.processing_complete = TRUE])
    /\ UNCHANGED session_contexts

GenerateFinalResponse ==
    /\ pc = "generate_final_response"
    /\ NodeRan("generate_final_response", _generate_final_response(state))
    /\ UNCHANGED session_contexts

\* _handle_error: state.get("error_state", "Unknown error occurred")
HandleError ==
    /\ pc = "handle_error"
    /\ NodeRan("handle_error",
               [state EXCEPT !.final_response = ErrorResponse(state.error_state)])
    /\ UNCHANGED session_contexts

\* workflow.invoke returned: the public method returns final_response, or
\* its own dict when there is none
InvokeReturns ==
    /\ pc = "END"
    /\ session_response' =
          IF state.final_response = NoFinalResponse THEN NoFinalResponseReply
          ELSE state.final_response
    /\ pc' = "o_idle"
    /\ UNCHANGED <<session_contexts, state, trace, entry, callVars, parserVars, extraVars>>

\* the outputs a state may hold when _generate_final_response is called
OutputsOf(v) ==
    {EmptyOutputs, FollowUpOutputs(v)} \cup
    {FleetOutputs(fr) :
        fr \in IF agent_fleets(v) = "none" THEN {}
               ELSE FleetOutcomes(agent_fleets(v),
                                  UserDataOf([x \in Fields |-> "dict"]))
                    \cup FleetOutcomes(agent_fleets(v),
                                       UserDataOf([x \in Fields |-> "absent"]))}

\* _generate_final_response called on a state of the caller's making
CallGenerateFinalResponse(v, error, outs) ==
    /\ pc = "o_idle"
    /\ entry' = "_generate_final_response"
    /\ state' = _generate_final_response(
                   [InitialState(v, NoRequestData) EXCEPT
                       !.error_state = error, !.agent_outputs = outs])
    /\ trace' = <<>>
    /\ session_response' = NoFinalResponse
    /\ UNCHANGED <<pc, session_contexts, callVars, parserVars, extraVars>>

OrchestratorNext ==
    \/ \E v \in VerticalArgs : \E ud \in RequestDatas(v) :
          StartCounselingSession(v, ud)
    \/ \E sid \in SessionIds : AskFollowUpQuestion(sid)
    \/ ValidateInput
    \/ InitializeVertical
    \/ ExecuteVerticalWorkflow
    \/ HandleFollowUp
    \/ GenerateFinalResponse
    \/ HandleError
    \/ InvokeReturns
    \/ \E v \in Verticals : \E error \in ErrorStates \cup {"none"} :
          \E outs \in OutputsOf(v) : CallGenerateFinalResponse(v, error, outs)

OrchestratorSpec == OrchestratorInit /\ [][OrchestratorNext]_vars

-----------------------------------------------------------------------------
(* Agent instances executed again and again *)

NotesInit ==
    /\ agents = [f \in Fleets |-> {}]
    /\ NoCall
    /\ NoParse
    /\ NoSession
    /\ NoExecution
    /\ NoApi
    /\ pc = "instances"

\* one agent.execute on instance a: _process_core_logic adds k notes, then
\* execute returns a completed result, or an exception or a failed
\* validation makes it return _create_failed_result
ExecuteOnInstance(a, k, completes) ==
    /\ pc = "instances"
    /\ Len(returned_results) < MaxExecutions
    /\ LET n == Len(returned_results) + 1
           attr == _add_processing_note(processing_notes[a], k, n)
       IN  /\ processing_notes' = [processing_notes EXCEPT ![a] = attr]
           /\ returned_results' =
                 Append(returned_results,
                        IF completes THEN CompletedWithNotes(a, attr)
                        ELSE FailedWithoutNotes(a))
    /\ UNCHANGED <<pc, collected, callVars, parserVars, orchestratorVars,
                   storeVars>>

\* execute_workflow puts the AgentResult objects returned so far in the
\* agent_results of a FleetResult
CollectInFleetResult ==
    /\ pc = "instances"
    /\ collected < Len(returned_results)
    /\ collected' = Len(returned_results)
    /\ UNCHANGED <<pc, processing_notes, returned_results, callVars,
                   parserVars, orchestratorVars, storeVars>>

NotesNext ==
    \/ \E a \in NoteAgents : \E k \in 0..MaxNotesPerCall :
          \E completes \in BOOLEAN : ExecuteOnInstance(a, k, completes)
    \/ CollectInFleetResult

NotesSpec == NotesInit /\ [][NotesNext]_vars

-----------------------------------------------------------------------------
(* Request handlers and background tasks of the API layer *)

\* The handlers and the background tasks are coroutines of one event loop.
\* A background task has no await in its body, so from its first statement
\* to its last no handler and no other task runs; between a handler and the
\* task it added, other handlers and tasks may run.

ApiInit ==
    /\ agents = [f \in Fleets |-> {}]
    /\ NoCall
    /\ NoParse
    /\ NoSession
    /\ NoExecution
    /\ NoApi
    /\ pc = "api"

LoopFree == pc = "api" /\ running_task = NoTask

\* POST /school-students, /college-upskilling, /career-transition with the
\* session id of the request (or a generated one): the session is set to
\* pending and the background task is added. In the college handler
\* json.loads(initial_message) can raise between the two, and then no task
\* is added.
AnalyzeRequest(session_id, raises) ==
    /\ LoopFree
    /\ submissions < MaxSubmissions
    /\ submissions' = submissions + 1
    /\ session_storage' =
          update_session_status(session_storage, session_id, "pending",
                                "none", "none")
    /\ background_tasks' =
          IF raises THEN background_tasks
          ELSE background_tasks \cup
                  {[id |-> submissions + 1, session_id |-> session_id]}
    /\ UNCHANGED <<pc, running_task, status_reply, callVars, parserVars,
                   orchestratorVars, notesVars>>

\* process_*_background up to the call of start_counseling_session
BackgroundTaskStarts(t) ==
    /\ LoopFree
    /\ t \in background_tasks
    /\ background_tasks' = background_tasks \ {t}
    /\ running_task' = t
    /\ session_storage' =
          update_session_status(session_storage, t.session_id, "processing",
                                "none", "none")
    /\ UNCHANGED <<pc, submissions, status_reply, callVars, parserVars,
                   orchestratorVars, notesVars>>

\* process_*_background after start_counseling_session returned a response
\* with success true ("success") or false ("failure"), or raised
BackgroundTaskEnds(outcome) ==
    /\ pc = "api"
    /\ running_task # NoTask
    /\ session_storage' =
          IF outcome = "success"
          THEN update_session_status(session_storage, running_task.session_id,
                                     "completed",
                                     <<"result", running_task.id>>, "none")
          ELSE update_session_status(session_storage, running_task.session_id,
                                     "failed", "none", outcome)
    /\ running_task' = NoTask
    /\ UNCHANGED <<pc, background_tasks, submissions, status_reply, callVars,
                   parserVars, orchestratorVars, notesVars>>

\* GET /status/{session_id}
GetAnalysisStatus(session_id) ==
    /\ LoopFree
    /\ status_reply' =
          StatusReply(session_id, get_session_status(session_storage, session_id))
    /\ status_reply' # status_reply
    /\ UNCHANGED <<pc, session_storage, background_tasks, running_task,
                   submissions, callVars, parserVars, orchestratorVars,
                   notesVars>>

ApiNext ==
    \/ \E sid \in SessionIds : \E raises \in BOOLEAN :
          AnalyzeRequest(sid, raises)
    \/ \E t \in Tasks : BackgroundTaskStarts(t)
    \/ \E outcome \in {"success", "failure", "exception"} :
          BackgroundTaskEnds(outcome)
    \/ \E sid \in SessionIds : GetAnalysisStatus(sid)

ApiSpec == ApiInit /\ [][ApiNext]_vars

-----------------------------------------------------------------------------
(* Properties of the agent loop *)

\* the agents at plan positions before position i
PlannedBefore(i) == {execution_plan[j] : j \in 1..(i - 1)}

\* C1: the previous_agent_outputs map handed to the agent at plan position i
\* holds exactly the agents at earlier plan positions whose result in this run
\* is completed, each with that result: no failed agent is in it, and no
\* result recorded at or after position i is in it.
C1_PreviousOutputsExact ==
    /\ \A k \in 1..Len(invocations) :
          LET e == invocations[k]
          IN  /\ DOMAIN e.previous_agent_outputs =
                    {a \in PlannedBefore(e.pos) \cap DOMAIN agent_results :
                        agent_results[a].status = "completed"}
              /\ \A a \in DOMAIN e.previous_agent_outputs :
                    e.previous_agent_outputs[a] = agent_results[a]
              /\ \A a \in DOMAIN agent_results :
                    agent_results[a].status = "failed"
                       => a \notin DOMAIN e.previous_agent_outputs
    /\ (caller = "fleet" /\ invocations # <<>>)
          => agent_input.previous_agent_outputs =
                invocations[Len(invocations)].previous_agent_outputs

\* an agent at position 3 or later was invoked after one earlier agent failed
\* and another completed, and a result was recorded after the invocation
C1_Witness ==
    \E k \in 1..Len(invocations) :
        LET e == invocations[k]
        IN  /\ e.pos >= 3
            /\ \E a \in PlannedBefore(e.pos) \cap DOMAIN agent_results :
                  agent_results[a].status = "failed"
            /\ e.previous_agent_outputs # NoMap
            /\ \E b \in DOMAIN agent_results \ PlannedBefore(e.pos) :
                  agent_results[b].status = "completed"

\* a run of execute_workflow that got past fleet validation
PlanRun == pos > 0

\* an agent.execute call has not returned yet
InExecute == pc \in {"agent_validate", "agent_model", "agent_parse",
                     "agent_confidence"}

\* the agent.execute call of the loop has not returned yet
InAgent == PlanRun /\ InExecute

\* the plan positions the loop has dealt with or is dealing with
Visited == IF InAgent THEN pos
           ELSE IF pos - 1 <= Len(execution_plan) THEN pos - 1
           ELSE Len(execution_plan)

\* the agent ids of the execute calls the loop made, in call order
Invoked == [k \in 1..Len(invocations) |-> invocations[k].agent_id]

IsRegistered(a) == a \in agents[fleet]

\* C2 as stated: a run that got past fleet validation has invoked, when it
\* ends, every agent id of the execution plan, once each and in plan order.
C2_EveryPlannedAgentInvoked ==
    (PlanRun /\ pc = "done") => Invoked = execution_plan

\* C2, amended: the loop invokes the planned agents that are registered in
\* the fleet, once each and in plan order (a planned id the fleet has not
\* registered is skipped); every call starts after all earlier calls have
\* returned and recorded their result, failed ones included; and the loop
\* ends only after the last plan position, whatever the results were.
C2_RegisteredPlannedAgentsInvokedInOrder ==
    PlanRun =>
        /\ Invoked = SelectSeq(SubSeq(execution_plan, 1, Visited), IsRegistered)
        /\ \A k \in 1..Len(invocations) : invocations[k].returned = k - 1
        /\ DOMAIN agent_results =
              {Invoked[k] : k \in 1..(Len(Invoked) - (IF InAgent THEN 1 ELSE 0))}
        /\ \A a \in DOMAIN agent_results :
              agent_results[a].status \in {"completed", "failed"}
        /\ pc = "done" => pos = Len(execution_plan) + 1

\* a run ended in which the first invoked agent failed and three more agents
\* were invoked after it
C2_Witness ==
    /\ PlanRun /\ pc = "done"
    /\ Len(invocations) >= 4
    /\ agent_results[invocations[1].agent_id].status = "failed"
    /\ fleet_result.agent_results = agent_results

-----------------------------------------------------------------------------
(* Properties of the aggregation *)

\* execute_workflow has returned from a run that got past fleet validation
RunEnded == PlanRun /\ pc = "done"

\* S: the planned agents that completed in the run
CompletedAgents ==
    {a \in Range(execution_plan) :
        a \in DOMAIN agent_results /\ agent_results[a].status = "completed"}

\* the sum of the confidence scores of the agents of S
CompletedConfidenceSum ==
    SumOver([a \in CompletedAgents |-> agent_results[a].confidence_score],
            CompletedAgents)

\* C3 as stated: overall_confidence is round(mean(S) * |S| / |plan|, 2), which
\* is round(sum(S) / |plan|, 2), with |plan| the length of the execution plan,
\* and 0 when S is empty.
C3_ConfidenceScaledByPlanLength ==
    RunEnded =>
        fleet_result.overall_confidence =
            IF CompletedAgents = {} THEN 0
            ELSE Round2(CompletedConfidenceSum, Len(execution_plan))

\* C3, amended: overall_confidence is round(mean(S) * |S| / n, 2) where n is
\* the number of planned agents that were executed (those with a result in
\* agent_results; a planned id the fleet has not registered is not counted),
\* and 0 when S is empty.
C3_ConfidenceScaledByExecutedAgents ==
    RunEnded =>
        fleet_result.overall_confidence =
            IF CompletedAgents = {} THEN 0
            ELSE Round2(CompletedConfidenceSum, Len(invocations))

\* a run ended with two completed agents of different confidence and a
\* failed one, and a positive overall confidence
C3_Witness ==
    /\ RunEnded
    /\ \E a, b \in CompletedAgents :
          agent_results[a].confidence_score # agent_results[b].confidence_score
    /\ \E c \in DOMAIN agent_results : agent_results[c].status = "failed"
    /\ fleet_result.overall_confidence > 0
    /\ fleet_result.overall_confidence < 9500

\* the number of agents of the run: the execute calls the loop made
AgentsOfRun == Len(invocations)

\* C4: the status of the FleetResult of a run is completed if all agents of
\* the run completed (there being at least one), partially_completed if more
\* than half of them but not all completed, and failed otherwise.
C4_StatusByCompletedShare ==
    RunEnded =>
        LET c == Cardinality(CompletedAgents)
            n == AgentsOfRun
        IN  fleet_result.status =
                IF n > 0 /\ c = n THEN "completed"
                ELSE IF c < n /\ 2 * c > n THEN "partially_completed"
                ELSE "failed"

\* a run ended partially completed, with a failed agent
C4_Witness ==
    /\ RunEnded
    /\ fleet_result.status = "partially_completed"
    /\ \E a \in DOMAIN agent_results : agent_results[a].status = "failed"
    /\ Cardinality(CompletedAgents) < AgentsOfRun

\* C5 as stated: the status is completed if and only if all planned agents
\* completed, and failed if and only if no agent completed.
C5_FailedIffNoneCompleted ==
    RunEnded =>
        /\ fleet_result.status = "completed"
              <=> CompletedAgents = Range(execution_plan)
        /\ fleet_result.status = "failed" <=> CompletedAgents = {}

\* C5, amended: the status is completed if and only if at least one agent
\* was executed and every executed agent completed; it is failed if and only
\* if at most half of the executed agents completed, which includes the runs
\* in which none completed.
C5_FailedIffAtMostHalfCompleted ==
    RunEnded =>
        /\ fleet_result.status = "completed"
              <=> (AgentsOfRun > 0 /\ DOMAIN agent_results = CompletedAgents)
        /\ fleet_result.status = "failed"
              <=> 2 * Cardinality(CompletedAgents) <= AgentsOfRun
        /\ CompletedAgents = {} => fleet_result.status = "failed"

\* a run ended failed although one of its agents completed
C5_Witness ==
    /\ RunEnded
    /\ fleet_result.status = "failed"
    /\ CompletedAgents # {}
    /\ AgentsOfRun >= 3

-----------------------------------------------------------------------------
(* Properties of input validation *)

\* the fleet-level required fields of the running workflow that user_data (a
\* dict) lacks: the key is absent, or holds None or an empty dict / list
MissingFleetFields ==
    IF fleet = "none" \/ user_data.is_none THEN {}
    ELSE {fld \in FleetFields(fleet) :
             user_data.f[fld] \in {"absent", "none", "empty_dict", "empty_list"}}

\* C6: when a fleet-level required field is missing from user_data,
\* execute_workflow returns at once a FleetResult with status failed,
\* overall_confidence 0 and empty agent_results that names the field; no
\* agent's execute is called, no model is called, and no exception leaves
\* execute_workflow.
C6_FleetFailsFastOnMissingField ==
    MissingFleetFields # {} =>
        /\ pc = "done"
        /\ fleet_result.status = "failed"
        /\ fleet_result.overall_confidence = 0
        /\ fleet_result.agent_results = NoMap
        /\ fleet_result.failure_reason = "missing_data"
        /\ MissingFleetFields \subseteq Range(fleet_result.missing)
        /\ invocations = <<>>
        /\ agent_results = NoMap
        /\ model_calls = {}
        /\ raised = "none"

\* the school fleet was run with cii_results None beside valid dbda_scores,
\* all of its agents being registered
C6_Witness ==
    /\ fleet = "school"
    /\ ~user_data.is_none
    /\ user_data.f["dbda_scores"] = "dict"
    /\ user_data.f["cii_results"] = "none"
    /\ agents["school"] = Range(execution_order("school"))
    /\ fleet_result.status = "failed"

\* the kinds of value that make a field absent or empty: no key, None, or a
\* string / list / map of length 0
AbsentOrEmpty == {"absent", "none", "empty_str", "empty_list", "empty_dict"}

\* the required fields of the agent whose execute runs (or ran last) that are
\* absent or empty in the user_data (a dict) it was handed
MissingRequired ==
    IF cur_agent = "none" \/ agent_input.user_data.is_none THEN {}
    ELSE {fld \in Range(required_inputs(cur_agent)) :
             agent_input.user_data.f[fld] \in AbsentOrEmpty}

\* C7: when some required field f of the agent is absent or empty in its
\* input, execute returns an AgentResult with status failed, confidence 0 and
\* the "Missing required inputs" message naming f; the agent's model is never
\* called, and nothing is raised.
C7_MissingRequiredFieldFailsAgent ==
    MissingRequired # {} =>
        /\ cur_agent \notin model_calls
        /\ pc \notin {"agent_model", "agent_parse", "agent_confidence"}
        /\ response = NoResponse
        /\ raised = "none"
        /\ agent_result # NoAgentResult =>
              /\ agent_result.agent_id = cur_agent
              /\ agent_result.status = "failed"
              /\ agent_result.confidence_score = 0
              /\ agent_result.error_kind = "missing_inputs"
              /\ MissingRequired \subseteq Range(agent_result.missing)

\* the test score interpreter returned from a call whose input has
\* dbda_scores and an empty cii_results
C7_Witness ==
    /\ cur_agent = "test_score_interpreter"
    /\ ~agent_input.user_data.is_none
    /\ agent_input.user_data.f["dbda_scores"] = "dict"
    /\ agent_input.user_data.f["cii_results"] = "empty_list"
    /\ agent_result.status = "failed"
    /\ agent_result.missing = <<"cii_results">>

\* C8: validate_input reports a required field as missing exactly when it is
\* absent from user_data, is None, or is a string / list / map of length 0,
\* in the order the agent declares them; it is valid exactly when no required
\* field is missing; and valid or not it returns the envelope with the five
\* parts required_data, optional_data, context_data, previous_outputs and
\* session_metadata, required_data holding only the non-missing required
\* fields and the last three being those of the input.
C8_ValidateInputContract ==
    validated # NoValidated =>
        LET R == Range(required_inputs(cur_agent))
            v == validated
        IN  /\ ~agent_input.user_data.is_none \/ R = {}
            /\ Range(v.missing_requirements) = MissingRequired
            /\ v.missing_requirements =
                  SelectSeq(required_inputs(cur_agent),
                            LAMBDA fld : fld \in MissingRequired)
            /\ v.is_valid <=> MissingRequired = {}
            /\ DOMAIN v.validated_data =
                  {"required_data", "optional_data", "context_data",
                   "previous_outputs", "session_metadata"}
            /\ v.validated_data.required_data = R \ MissingRequired
            /\ v.validated_data.optional_data \subseteq optional_inputs(cur_agent)
            /\ v.validated_data.context_data = agent_input.conversation_context
            /\ v.validated_data.previous_outputs =
                  agent_input.previous_agent_outputs
            /\ v.validated_data.session_metadata = agent_input.session_metadata

\* validate_input found one required field missing (an empty string) and the
\* other, holding 0, available
C8_Witness ==
    /\ validated # NoValidated
    /\ ~validated.is_valid
    /\ validated.missing_requirements = <<"cii_results">>
    /\ validated.validated_data.required_data = {"dbda_scores"}
    /\ agent_input.user_data.f["dbda_scores"] = "zero"
    /\ agent_input.user_data.f["cii_results"] = "empty_str"

-----------------------------------------------------------------------------
(* Properties of error handling *)

\* agent.execute has returned a result
Returned == agent_result # NoAgentResult

\* C9 as stated: agent.execute never raises, and any exception thrown during
\* validation, the model call, response parsing or the confidence calculation
\* makes it return a failed AgentResult with confidence 0 that carries the
\* exception's message.
C9_AnyExceptionBecomesFailedResult ==
    /\ raised = "none"
    /\ (thrown.exc # "none" /\ Returned) =>
          /\ agent_result.status = "failed"
          /\ agent_result.confidence_score = 0
          /\ agent_result.exc = thrown.exc

\* C10 as stated: a response that cannot be parsed makes the parse error
\* leave agent.execute as a raised error.
C10_ParseErrorLeavesExecute ==
    (thrown.exc = "parse_error" /\ ~InExecute) => raised = "parse_error"

\* C10, amended: a parse error never leaves agent.execute as a raised error.
\* Where the agent's parser raises it out of _process_core_logic, execute
\* catches it and returns a failed AgentResult with confidence 0 that carries
\* its message; at the call sites that catch it themselves a fallback value
\* stands in and execute goes on.
C10_ParseErrorBecomesFailedResult ==
    thrown.exc = "parse_error" =>
        /\ raised = "none"
        /\ response.text = "unparsable"
        /\ thrown.caught_by = "execute" <=> response.site = "strict"
        /\ thrown.caught_by = "execute" =>
              /\ Returned
              /\ agent_result.agent_id = cur_agent
              /\ agent_result.status = "failed"
              /\ agent_result.confidence_score = 0
              /\ agent_result.error_kind = "processing_error"
              /\ agent_result.exc = "parse_error"
        /\ thrown.caught_by # "execute" =>
              /\ thrown.caught_by = "core_logic"
              /\ response.output = "fallback"

\* in a fleet run the parser of the market intelligence agent raised on an
\* unparsable response and execute returned a failed result
C10_Witness ==
    /\ caller = "fleet"
    /\ cur_agent = "market_intelligence"
    /\ response = [site |-> "strict", text |-> "unparsable", output |-> "empty"]
    /\ thrown = [exc |-> "parse_error", caught_by |-> "execute"]
    /\ agent_result.status = "failed"
    /\ agent_results["market_intelligence"] = agent_result

\* C11 as stated: no call site puts a fallback value in the place of a
\* response that could not be parsed or of a model call that failed: such a
\* failure is never caught inside the agent's own code, and no completed
\* AgentResult holds output made up in place of the response.
C11_NoFallbackValues ==
    /\ thrown.caught_by # "core_logic"
    /\ response.output # "fallback"
    /\ agent_result.status = "completed" => agent_result.output_data # "fallback"
    /\ \A a \in DOMAIN agent_results :
          agent_results[a].status = "completed"
             => agent_results[a].output_data # "fallback"

-----------------------------------------------------------------------------
(* Properties of the response parsers *)

\* _parse_llm_response has returned or raised
ParseDone == pc = "parse_done"

\* the response is the JSON text of a non-empty object, nothing around it
\* but possibly a complete fence
JsonTextOnly ==
    /\ parse_input.garbage = "none"
    /\ parse_input.fence \in {"none", "json", "bare"}

\* C12 as stated: whichever parser it is, a response that is valid JSON but
\* for a trailing comma and a // comment line is parsed successfully into
\* the object it denotes.
C12_TrailingCommaAndCommentRepaired ==
    (/\ ParseDone
     /\ JsonTextOnly
     /\ parse_input.x # <<>>
     /\ parse_input.trailing
     /\ parse_input.comment = "own_line")
        => (parsed.ok /\ parsed.value = parse_input.x)

\* C13: for any JSON object X, the parser returns for X wrapped in a
\* ```json or a bare ``` fence what it returns for X itself; for the plain
\* parsers that is X as json.loads yields it.
C13_FencesDoNotChangeTheParse ==
    (/\ ParseDone
     /\ parse_input.garbage = "none"
     /\ parse_input.fence \in {"json", "bare"}
     /\ ~parse_input.trailing
     /\ parse_input.comment = "none")
        => /\ parsed = _parse_llm_response(parse_input.parser,
                                          parse_input.library,
                                          Render(parse_input.x, FALSE, "none"))
           /\ parse_input.parser = "plain"
                 => parsed = ParseOk(parse_input.x, "json_loads")

\* a plain parser has parsed an object of two members wrapped in a bare fence
C13_Witness ==
    /\ ParseDone
    /\ parse_input.parser = "plain"
    /\ parse_input.garbage = "none" /\ parse_input.fence = "bare"
    /\ ~parse_input.trailing /\ parse_input.comment = "none"
    /\ Len(parse_input.x) = 2
    /\ parsed = ParseOk(parse_input.x, "json_loads")

-----------------------------------------------------------------------------
(* Properties of the fleet managers' pure methods *)

\* _create_execution_plan of the college fleet has returned
CollegePlanMade == pc = "fn_planned" /\ fleet = "college" /\ ~user_data.is_none

\* resume_data is supplied and non-empty: the key is there and its value is
\* not None, not of length 0, and not a falsy scalar, which is no resume
ResumeSupplied == user_data.f["resume_data"] \notin AbsentOrEmpty \cup {"zero"}

\* C14: the plan of the college fleet always contains market_intelligence;
\* when resume_data is supplied and non-empty it is the five agents in the
\* fixed order (profile_analysis, market_intelligence,
\* skill_development_strategist, career_optimization_planner,
\* opportunity_matcher); otherwise, and so for an empty user_data, it is
\* exactly [market_intelligence].
C14_CollegePlanByResume ==
    CollegePlanMade =>
        /\ "market_intelligence" \in Range(execution_plan)
        /\ ResumeSupplied => execution_plan = execution_order("college")
        /\ ~ResumeSupplied => execution_plan = <<"market_intelligence">>

\* the plan was made from a user_data with no key at all
C14_Witness ==
    /\ CollegePlanMade
    /\ \A fld \in Fields : user_data.f[fld] = "absent"
    /\ execution_plan = <<"market_intelligence">>

\* the map that holds, for the completed agents of results, one fixed
\* completed result each and nothing else
CompletedOnly(results) ==
    [a \in CompletedIn(results) |-> CompletedResult(a, "parsed", 9500)]

\* _generate_fleet_recommendations has returned
Recommended == pc = "fn_recommended"

\* the last n elements of list s
LastOf(s, n) == SubSeq(s, Len(s) - n + 1, Len(s))

\* C16: the list returned for a map is the list returned for the map of its
\* completed agents alone, whatever their outputs and confidences and
\* whatever failed entries it has, so two maps with the same set of completed
\* agent ids give the same list; and the list ends with the fleet's general
\* recommendations.
C16_RecommendationsByCompletedSet ==
    Recommended =>
        /\ fleet_result.recommendations =
              _generate_fleet_recommendations(fleet, CompletedOnly(agent_results))
        /\ Len(fleet_result.recommendations) >= GeneralCount(fleet)
        /\ LastOf(fleet_result.recommendations, GeneralCount(fleet)) =
              GeneralRecommendations(fleet)

\* a map with a failed entry, a completed entry holding a fallback output,
\* and an agent without entry
C16_Witness ==
    /\ Recommended
    /\ FailedIn(agent_results) # {}
    /\ \E a \in CompletedIn(agent_results) :
          /\ agent_results[a].output_data = "fallback"
          /\ agent_results[a].confidence_score # 9500
    /\ DOMAIN agent_results # Range(execution_order(fleet))
    /\ Len(fleet_result.recommendations) > GeneralCount(fleet)

-----------------------------------------------------------------------------
(* A model call that throws during a fleet run *)

\* a run of all five agents of the fleet has ended; the model call of exactly
\* one of them threw, and no other agent failed
OneModelCallThrew ==
    /\ RunEnded
    /\ Invoked = execution_order(fleet)
    /\ Cardinality(model_raised) = 1
    /\ FailedIn(agent_results) \subseteq model_raised

\* C15 as stated: in such a run the agent whose model call threw has a failed
\* result, the FleetResult is partially_completed, the other four agents
\* were executed, and none of them was handed the result of the agent that
\* threw; whichever agent that is.
C15_ThrowingAgentAloneFails ==
    OneModelCallThrew =>
        \A a \in model_raised :
            /\ agent_results[a].status = "failed"
            /\ fleet_result.status = "partially_completed"
            /\ DOMAIN agent_results = Range(execution_plan)
            /\ \A k \in 1..Len(invocations) :
                  a \notin DOMAIN invocations[k].previous_agent_outputs

-----------------------------------------------------------------------------
(* Properties of the orchestrator *)

\* the three paths of the graph, by the outcome of validate_input
PathOf(step) ==
    CASE step = "valid" ->
            <<"validate_input", "initialize_vertical",
              "execute_vertical_workflow", "generate_final_response">>
      [] step = "follow_up" ->
            <<"validate_input", "handle_follow_up", "generate_final_response">>
      [] OTHER -> <<"validate_input", "handle_error">>

IsPrefix(s, t) == Len(s) <= Len(t) /\ s = SubSeq(t, 1, Len(s))

\* the graph is running or has reached END
InGraph == pc \notin {"o_idle"}

\* C17: the nodes run in an invocation are, at every moment, the beginning of
\* one of the three paths (validate_input, then initialize_vertical,
\* execute_vertical_workflow, generate_final_response when valid;
\* handle_follow_up, generate_final_response when follow_up; handle_error
\* when error), no node runs twice, execute_vertical_workflow runs only after
\* a valid outcome, and at END the whole path has run and final_response is
\* set.
C17_OnePathThroughTheGraph ==
    /\ \E step \in {"valid", "follow_up", "error"} : IsPrefix(trace, PathOf(step))
    /\ trace # <<>> => IsPrefix(trace, PathOf(state.workflow_step))
    /\ \A i, j \in 1..Len(trace) : trace[i] = trace[j] => i = j
    /\ "execute_vertical_workflow" \in Range(trace)
          => state.workflow_step = "valid"
    /\ (InGraph /\ pc # "END")
          => IsPrefix(Append(trace, pc), PathOf(state.workflow_step))
             \/ (trace = <<>> /\ pc = "validate_input")
    /\ pc = "END"
          => /\ trace = PathOf(state.workflow_step)
             /\ state.final_response # NoFinalResponse

\* a follow-up invocation has reached END
C17_Witness ==
    /\ pc = "END"
    /\ trace = <<"validate_input", "handle_follow_up", "generate_final_response">>
    /\ state.final_response.success

\* validate_input has run in the invocation, and no later node has
Validated == trace = <<"validate_input">>

\* the request lacks a required field of the vertical it names
LacksRequired ==
    /\ state.selected_vertical # "none"
    /\ ~validate_user_data(state.selected_vertical, state.user_data).is_valid

\* C18: validate_input classifies a request that names a vertical and lacks
\* required fields as follow_up when the orchestrator holds a session context
\* under the request's session id, as error when it holds none; a request
\* that names no vertical is classified error.
C18_FollowUpIffSessionExists ==
    Validated =>
        /\ state.selected_vertical = "none" => state.workflow_step = "error"
        /\ LacksRequired =>
              IF HasSession(session_contexts, state.user_data.session_id)
              THEN state.workflow_step = "follow_up"
              ELSE state.workflow_step = "error"

\* a request without its fields is a follow-up of the session of its id, while
\* the orchestrator holds another session too
C18_Witness ==
    /\ Validated
    /\ LacksRequired
    /\ state.workflow_step = "follow_up"
    /\ Cardinality(DOMAIN session_contexts) > 1

\* _generate_final_response has run on the state
FinalResponseGenerated ==
    \/ entry = "_generate_final_response"
    \/ "generate_final_response" \in Range(trace)

\* C19: the response of _generate_final_response is {success: false, error,
\* suggested_actions} carrying the error when error_state is set; a
\* success: false dict with diagnostics only (no outputs, no suggested
\* actions) when error_state is unset and agent_outputs is empty; and
\* {success: true, vertical, outputs, summary, next_actions} otherwise.
C19_FinalResponseByState ==
    FinalResponseGenerated =>
        LET r == state.final_response
        IN  IF state.error_state # "none"
            THEN /\ ~r.success
                 /\ {"success", "error", "suggested_actions"} \subseteq r.keys
                 /\ r.error = state.error_state
                 /\ r.suggested_actions # "none"
            ELSE IF state.agent_outputs = EmptyOutputs
            THEN /\ ~r.success
                 /\ r.keys = {"success", "error", "timestamp", "debug_info"}
            ELSE /\ r.success
                 /\ {"success", "vertical", "outputs", "summary", "next_actions"}
                       \subseteq r.keys
                 /\ r.vertical = state.selected_vertical
                 /\ r.outputs = state.agent_outputs

\* called on a state with no error and no outputs
C19_Witness ==
    /\ entry = "_generate_final_response"
    /\ state.error_state = "none"
    /\ state.agent_outputs = EmptyOutputs
    /\ state.final_response = NoResultsResponse

\* start_counseling_session has returned
SessionReturned ==
    entry = "start_counseling_session" /\ pc = "o_idle" /\ trace # <<>>

\* the fleet of the vertical ran and returned a failed FleetResult without
\* running an agent, a required field of the fleet being missing
FleetFailedOnMissingData ==
    /\ "execute_vertical_workflow" \in Range(trace)
    /\ agent_fleets(state.selected_vertical) # "none"
    /\ _validate_fleet_input(agent_fleets(state.selected_vertical),
                             FleetUserData(state.user_data)) # <<>>
    /\ state.agent_outputs.kind = "fleet"
    /\ state.agent_outputs.fleet_summary.status = "failed"
    /\ DOMAIN state.agent_outputs.agent_outputs = {}

\* C20 as stated: when the fleet failed because its required data is missing,
\* start_counseling_session returns a response with success false, an error
\* and suggested_actions.
C20_FleetFailureIsStructuredError ==
    (SessionReturned /\ FleetFailedOnMissingData) =>
        /\ ~session_response.success
        /\ {"error", "suggested_actions"} \subseteq session_response.keys

-----------------------------------------------------------------------------
(* Follow-up questions and unsupported verticals *)

\* ask_follow_up_question has returned
FollowUpReturned ==
    entry = "ask_follow_up_question" /\ pc = "o_idle" /\ trace # <<>>

\* C22 as stated: ask_follow_up_question for a session id under which the
\* orchestrator holds a session context runs the handle_follow_up node and
\* returns the follow-up placeholder response with success true.
C22_FollowUpQuestionIsAnswered ==
    (FollowUpReturned
     /\ HasSession(session_contexts, state.user_data.session_id))
        => /\ "handle_follow_up" \in Range(trace)
           /\ session_response.success
           /\ session_response.outputs.kind = "follow_up"

\* the request names a vertical that has no fleet: a string outside the
\* Vertical enum, or career_transition
NoFleetForRequest ==
    /\ entry = "start_counseling_session"
    /\ state.selected_vertical # "none"
    /\ agent_fleets(state.selected_vertical) = "none"

\* C30 as stated: a request whose vertical has no fleet ends with a
\* success: false response whatever its session id and whatever came before,
\* and the session contexts are not written (initialize_vertical, the one
\* node that writes them, has not run).
C30_UnsupportedVerticalFailsCleanly ==
    (SessionReturned /\ NoFleetForRequest)
        => /\ ~session_response.success
           /\ "initialize_vertical" \notin Range(trace)

\* validate_input has classified the request valid, and its vertical has a
\* fleet
AcceptedForFleet ==
    /\ trace # <<>>
    /\ state.workflow_step = "valid"
    /\ agent_fleets(state.selected_vertical) # "none"

\* C27 as stated: a user_data the orchestrator's validator accepts for
\* school_students or college_upskilling is accepted by the fleet's
\* _validate_fleet_input, and the request never yields a FleetResult that
\* failed on missing required data.
C27_ValidationLayersAgree ==
    AcceptedForFleet =>
        /\ _validate_fleet_input(agent_fleets(state.selected_vertical),
                                 FleetUserData(state.user_data)) = <<>>
        /\ ~FleetFailedOnMissingData

-----------------------------------------------------------------------------
(* Well-formed JSON through the parsers *)

\* the response is well-formed JSON, fenced or not
WellFormedJson ==
    /\ JsonTextOnly
    /\ ~parse_input.trailing
    /\ parse_input.comment = "none"

\* C23 as stated: whichever parser it is, well-formed JSON, including JSON
\* with a string value that contains // or a comma followed by a closing
\* brace, is returned as json.loads yields it from the fence-stripped text
\* (the removal of comments and trailing commas has not touched it).
C23_WellFormedJsonParsedDirectly ==
    (ParseDone /\ WellFormedJson)
        => parsed = ParseOk(parse_input.x, "json_loads")


\* a plan was made from a user_data that is a dict, by either fleet
PlanMade == pc = "fn_planned" /\ ~user_data.is_none

\* C26: for both fleets and every user_data, every agent of the plan that
\* _create_execution_plan returns has all of its declared depends_on agents
\* in the plan at earlier positions: the plan is a topological order of the
\* declared dependency graph restricted to the plan.
C26_PlanRespectsDependencies ==
    PlanMade =>
        \A i \in 1..Len(execution_plan) :
            depends_on(execution_plan[i]) \subseteq PlannedBefore(i)

\* each fleet's five-agent plan was made, the one whose agents have
\* dependencies
C26_Witness ==
    /\ PlanMade
    /\ Len(execution_plan) = 5
    /\ fleet = "school"
    /\ depends_on(execution_plan[5]) # {}


\* the user_data the plan was made from passes _validate_fleet_input
AcceptedByFleetValidation == _validate_fleet_input(fleet, user_data) = <<>>

\* C28: for every user_data that a fleet's _validate_fleet_input accepts,
\* _create_execution_plan returns the fleet's full five-agent execution
\* order, never an empty or partial plan, so that the aggregation has at
\* least one agent result.
C28_AcceptedDataGetsFullPlan ==
    (PlanMade /\ AcceptedByFleetValidation)
        => execution_plan = execution_order(fleet)


\* the AgentResults stored in the FleetResult of the run
StoredResults == fleet_result.agent_results

\* C29: every AgentResult stored in a FleetResult has status completed or
\* failed, so the successful and the failed agents of the metadata partition
\* the keys of agent_results; every key of agent_results is an agent id of
\* the execution plan; a failed AgentResult has confidence 0 and an empty
\* output.
C29_StoredResultsCompletedOrFailed ==
    /\ \A a \in DOMAIN StoredResults :
          /\ StoredResults[a].status \in {"completed", "failed"}
          /\ a \in Range(fleet_result.execution_plan)
          /\ StoredResults[a].status = "failed" =>
                /\ StoredResults[a].confidence_score = 0
                /\ StoredResults[a].output_data = "empty"
    /\ fleet_result.successful_agents \cup fleet_result.failed_agents
          = DOMAIN StoredResults
    /\ fleet_result.successful_agents \cap fleet_result.failed_agents = {}

\* a FleetResult that stores a completed and a failed AgentResult
C29_Witness ==
    /\ fleet_result.successful_agents # {}
    /\ fleet_result.failed_agents # {}
    /\ \E a \in DOMAIN StoredResults : StoredResults[a].status = "failed"


\* _process_core_logic of one of the two agents has built its required_data
CoreLogicDerived ==
    /\ pc = "agent_model"
    /\ cur_agent \in {"educational_roadmap_planner",
                      "college_scholarship_navigator"}

\* the source agent of list l completed earlier in the run
UpstreamCompleted(l) ==
    /\ SourceAgent(l) \in DOMAIN agent_input.previous_agent_outputs
    /\ agent_input.previous_agent_outputs[SourceAgent(l)].status = "completed"
    /\ agent_input.previous_agent_outputs[SourceAgent(l)].output_data = "parsed"

\* C24: when academic_stream_advisor, career_pathway_explorer or
\* educational_roadmap_planner completed earlier in the same run,
\* educational_roadmap_planner and college_scholarship_navigator derive
\* their recommended streams, career goals and educational pathway from
\* those outputs; the hard-coded default lists are used only when the
\* upstream output is absent from the previous outputs.
C24_ListsDerivedFromUpstream ==
    CoreLogicDerived =>
        \A l \in DerivedLists(cur_agent) :
            UpstreamCompleted(l) <=>
                required_data_of(cur_agent, validated.validated_data)[l]
                    = "upstream"


\* C21: an AgentResult is immutable after creation: once agent.execute has
\* returned it, no later operation (adding processing notes, later
\* executions of the same agent instance, building the FleetResult) changes
\* any of its fields, including its metadata.
C21_ReturnedResultsNeverChange ==
    \A i \in 1..Len(returned_results) :
        MetadataNotes(returned_results[i], processing_notes)
            = returned_results[i].notes_at_return

\* the stored data and error of every session agree with its status
StoreConsistent ==
    \A sid \in SessionIds :
        /\ session_storage[sid].data # "none"
              => session_storage[sid].status = "completed"
        /\ session_storage[sid].error # "none"
              => session_storage[sid].status = "failed"

\* the status of a session changes along pending, processing, completed or
\* failed; a new submission starts it at pending again
StatusMoves ==
    \A sid \in SessionIds :
        LET old == session_storage[sid].status
            new == session_storage'[sid].status
        IN  new # old =>
               \/ new = "pending"
               \/ old = "pending" /\ new = "processing"
               \/ old = "processing" /\ new \in {"completed", "failed"}

\* C25: in every reachable state of the session store, under any
\* interleaving of request handlers and background tasks, the stored result
\* data of a session is non-null only if its status is completed and its
\* stored error is non-null only if its status is failed; a session
\* submitted for analysis moves pending, then processing, then completed or
\* failed.
C25_SessionStoreStatusMachine ==
    []StoreConsistent /\ [][StatusMoves]_vars

====
